---- MODULE Spec2Model ----
(***************************************************************************)
(* A model of dga::Result<T, E> (result.h): the tagged storage cell        *)
(* detail::ResultStorage, the lifecycle primitives of                      *)
(* detail::ResultStorageWithOperations and the public operations of        *)
(* Result.  Every public operation is one action; inside an action the     *)
(* primitives run in the order of the source and append to an event log.   *)
(*                                                                         *)
(* Besides the program's own fields (has_value_, value_, error_) each cell *)
(* carries two ghost bits, vlive and elive, that say whether an object is  *)
(* currently constructed in value_ / error_.  They are changed only by     *)
(* constructors and destructors, never by an assignment operator.          *)
(*                                                                         *)
(* Four further components have a model of their own, each with its own     *)
(* variables and its own specification: the scope guards of scope.h        *)
(* (ScopeSpec), the string algorithms strSplit and strReplaceAll           *)
(* (StrSpec), the thread barrier (BarrierSpec) and the semaphore           *)
(* (SemSpec).  A specification leaves the variables of the other           *)
(* components at rest.                                                     *)
(***************************************************************************)
EXTENDS Integers, Sequences, FiniteSets, TLC

VARIABLES cfg, cell, log, last, aborted, nops,
          guards, uncaught, calls, phase, did,
          call, subject, pos, ss, output, pc,
          barrier, party, round,
          sem, user, tally

resultVars == <<cfg, cell, log, last, aborted, nops>>
scopeVars == <<guards, uncaught, calls, phase, did>>
strVars == <<call, subject, pos, ss, output, pc>>
barrierVars == <<barrier, party, round>>
semVars == <<sem, user, tally>>
syncVars == <<barrierVars, semVars>>
vars == <<resultVars, scopeVars, strVars, syncVars>>

\* No block with scope guards is open, no string algorithm is running.
ScopeAtRest ==
    /\ guards = <<>>
    /\ uncaught = 0
    /\ calls = <<>>
    /\ phase = "none"
    /\ did = <<>>

StrAtRest ==
    /\ call = <<>>
    /\ subject = <<>>
    /\ pos = 0
    /\ ss = <<>>
    /\ output = <<>>
    /\ pc = "none"

\* No Barrier exists, no Semaphore exists.
BarrierAtRest ==
    /\ barrier = <<>>
    /\ party = <<>>
    /\ round = <<>>

SemAtRest ==
    /\ sem = <<>>
    /\ user = <<>>
    /\ tally = <<>>

SyncAtRest == BarrierAtRest /\ SemAtRest

\* ---------------------------------------------------------------- bounds
MaxVal == 0
MaxOps == 3
MaxFuse == 3

\* ------------------------------------------------------- payload values
\* Payloads of the source side (U, G) are ints, payloads of the Result
\* under test (T, E) are floats, as in TEST(Result, Constructors).
BigInt == 2^24 + 1
UVals == (0 .. MaxVal) \cup {BigInt}

\* The content of a payload after std::move has taken it (valid but
\* unspecified), and the content of storage that holds no object: the
\* no_value_ member of the union.
Moved == -1
NoVal == -2

\* static_cast<float>(int): exact up to 2^24, round to nearest even above.
ToFloat(i) ==
    IF i <= 2^24 THEN i
    ELSE IF i % 2 = 0 THEN i
    ELSE IF (i \div 2) % 2 = 0 THEN 2 * (i \div 2) ELSE 2 * (i \div 2) + 2

ConvertValue(u) == ToFloat(u)
ConvertError(g) == ToFloat(g)
DefaultT == 0

\* The values a T or an E of the Result under test can take.
TVals == {ConvertValue(u) : u \in UVals}
EVals == {ConvertError(g) : g \in UVals}

\* Two Result<T, E> objects.  Both are constructed, read from, swapped
\* with and destroyed; the mutating member functions are called on the
\* first, with the second as their other operand.
Obj == {"a", "b"}
Subject == "a"

\* --------------------------------------------------- type configurations
\* The properties of T and E the source dispatches on.
Config(voidT, dfltT, ndcT, copyT, moveT, copyE, moveE, trivE) ==
    [voidT |-> voidT, dfltT |-> dfltT, ndcT |-> ndcT,
     copyThrowsT |-> copyT, moveThrowsT |-> moveT,
     copyThrowsE |-> copyE, moveThrowsE |-> moveE, trivE |-> trivE]

\* A build: a type configuration, with assert() either compiled in or
\* compiled out (NDEBUG).
Build(c, ndebug) ==
    [voidT |-> c.voidT, dfltT |-> c.dfltT, ndcT |-> c.ndcT,
     copyThrowsT |-> c.copyThrowsT, moveThrowsT |-> c.moveThrowsT,
     copyThrowsE |-> c.copyThrowsE, moveThrowsE |-> c.moveThrowsE,
     trivE |-> c.trivE, ndebug |-> ndebug]

\* E: copying may throw, moving may or may not.
EKinds == {<<TRUE, FALSE>>, <<TRUE, TRUE>>}

\* T: nothrow default constructible with a throwing copy (std::string);
\* not default constructible, with and without a throwing move; void,
\* with a non-trivially and a trivially destructible E.  Whether an
\* operation that may throw does throw is chosen call by call, so the
\* types that never throw are covered by the calls that do not.
Configs ==
    {Config(FALSE, TRUE, TRUE, TRUE, FALSE, e[1], e[2], FALSE) : e \in EKinds}
    \cup {Config(FALSE, FALSE, FALSE, TRUE, FALSE, e[1], e[2], FALSE) : e \in EKinds}
    \cup {Config(FALSE, FALSE, FALSE, TRUE, TRUE, e[1], e[2], FALSE) : e \in EKinds}
    \cup {Config(TRUE, TRUE, FALSE, FALSE, FALSE, TRUE, TRUE, FALSE)}
    \cup {Config(TRUE, TRUE, FALSE, FALSE, FALSE, FALSE, FALSE, TRUE)}

\* Every type configuration is built with assertions; the builds without
\* are those of the default constructible T and of void T.
Builds ==
    {Build(c, FALSE) : c \in Configs}
    \cup {Build(c, TRUE) : c \in {d \in Configs : d.dfltT /\ ~d.trivE}}

nothrowMoveT == ~cfg.voidT /\ ~cfg.moveThrowsT
nothrowMoveE == ~cfg.moveThrowsE

CanThrowT(mode) == IF mode = "copy" THEN cfg.copyThrowsT ELSE cfg.moveThrowsT
CanThrowE(mode) == IF mode = "copy" THEN cfg.copyThrowsE ELSE cfg.moveThrowsE

\* The choices of the failing payload operation worth distinguishing.
FuseSet(can) == IF can THEN 0 .. 1 ELSE {0}

\* ------------------------------------------------------------ the cell
\* union { T value_; Error<E> error_; char no_value_; }; bool has_value_;
Absent ==
    [st |-> "absent", has_value_ |-> FALSE, vlive |-> FALSE, val |-> NoVal,
     elive |-> FALSE, err |-> NoVal]

\* ResultStorage(uninitialised_tag): no_value_(), has_value_(false)
Uninitialised == [Absent EXCEPT !.st = "alive"]

\* ---------------------------------------------- the machine of one call
\* ctl: "run" while the call executes, "threw" once an exception is in
\* flight, "abort" after a failed assert / std::terminate / crash,
\* "illformed" when the instantiation is rejected by the compiler.
\* fuse: which of the call's throwing-capable payload operations fails
\* (0: none).  crash: whether undefined behaviour crashes the process.
\* junk: what a read through a pointer to storage that holds no object of
\* the pointee's type yields, when the process survives the read.
Machine(fuse, crash) ==
    [cell |-> cell, ctl |-> "run", log |-> <<>>, fuse |-> fuse,
     crash |-> crash, exc |-> NoVal, ret |-> NoVal, junk |-> NoVal]

Emit(m, ev, r) == [m EXCEPT !.log = Append(@, <<ev, r>>)]

Throws(m, can) == can /\ m.fuse = 1
Burn(m, can) == IF can /\ m.fuse > 1 THEN [m EXCEPT !.fuse = @ - 1] ELSE m

Raise(m, r) == [Emit(m, "throw", r) EXCEPT !.ctl = "threw"]
Terminate(m, r) == [Emit(m, "terminate", r) EXCEPT !.ctl = "abort"]
AssertFail(m, r) == [Emit(m, "assert", r) EXCEPT !.ctl = "abort"]

\* assert(cond): aborts when cond is false, unless the build defines
\* NDEBUG, in which case the statement is empty.
assert(m, cond, r) ==
    IF m.ctl # "run" \/ cond \/ cfg.ndebug THEN m ELSE AssertFail(m, r)

\* Undefined behaviour: recorded, then either the process crashes or the
\* call carries on the way the generated code does.
Undefined(m, what, r) ==
    IF m.crash THEN [Emit(m, what, r) EXCEPT !.ctl = "abort"]
    ELSE Emit(m, what, r)

\* The discriminant of the cell names an alternative that is constructed.
Sound(c) ==
    IF c.has_value_ THEN cfg.voidT \/ c.vlive
    ELSE c.elive \/ (cfg.voidT /\ cfg.trivE)

\* The outcomes of undefined behaviour to distinguish for a call on cell
\* r: none when the call starts from a sound cell and so meets none.
Crashes(r) == IF Sound(cell[r]) THEN {FALSE} ELSE BOOLEAN

\* An object dropped without its destructor: not undefined, but a leak.
Leak(m, r) == Emit(m, "leak", r)

\* ------------------------------------------------ ResultStorage members
\* The <void, E, false, true> specialisation: every destructor is empty.
TrivialStorage == cfg.voidT /\ cfg.trivE

\* void destructValue() { assert(has_value_); value_.~T(); }
destructValue(m, r) ==
    IF m.ctl # "run" THEN m
    ELSE IF cfg.voidT THEN m
    ELSE IF assert(m, m.cell[r].has_value_, r).ctl # "run"
         THEN assert(m, m.cell[r].has_value_, r)
    ELSE IF m.cell[r].vlive
         THEN [Emit(m, "~T", r) EXCEPT !.cell[r].vlive = FALSE,
                                       !.cell[r].val = NoVal]
         ELSE Undefined(m, "~T!", r)

\* void destructError() { assert(!has_value_); error_.~Error<E>(); }
destructError(m, r) ==
    IF m.ctl # "run" THEN m
    ELSE IF TrivialStorage
         THEN [m EXCEPT !.cell[r].elive = FALSE, !.cell[r].err = NoVal]
    ELSE IF assert(m, ~m.cell[r].has_value_, r).ctl # "run"
         THEN assert(m, ~m.cell[r].has_value_, r)
    ELSE IF m.cell[r].elive
         THEN [Emit(m, "~E", r) EXCEPT !.cell[r].elive = FALSE,
                                       !.cell[r].err = NoVal]
         ELSE Undefined(m, "~E!", r)

\* void destruct(): the alternative the discriminant names.
destruct(m, r) ==
    IF m.ctl # "run" THEN m
    ELSE IF TrivialStorage THEN m
    ELSE IF cfg.voidT
         THEN IF ~m.cell[r].has_value_ THEN destructError(m, r) ELSE m
    ELSE IF m.cell[r].has_value_ THEN destructValue(m, r)
         ELSE destructError(m, r)

\* -------------------------------- ResultStorageWithOperations members
\* An object still constructed in the union when another one is placed
\* over it is lost without its destructor.
Overwrite(m, r) ==
    IF (m.cell[r].vlive \/ m.cell[r].elive) /\ ~TrivialStorage
    THEN Leak(m, r) ELSE m

\* constructValue(args...): placement new of T, then has_value_ = true.
\* noexcept(is_nothrow_constructible_v<T>): a throw terminates when T is
\* nothrow default constructible.
constructValue(m, r, v, can) ==
    IF m.ctl # "run" THEN m
    ELSE IF cfg.voidT
         THEN [Emit(Overwrite(m, r), "void_placeholder", r) EXCEPT
                   !.cell[r].has_value_ = TRUE, !.cell[r].elive = FALSE]
    ELSE IF Throws(m, can)
         THEN IF cfg.ndcT THEN Terminate(m, r) ELSE Raise(m, r)
    ELSE [Emit(Overwrite(Burn(m, can), r), "T()", r) EXCEPT
              !.cell[r].vlive = TRUE, !.cell[r].elive = FALSE,
              !.cell[r].val = v, !.cell[r].has_value_ = TRUE]

\* constructError(args...): placement new of Error<E>, then
\* has_value_ = false.  Error<E> is never default constructible, so the
\* noexcept specification is always false.
constructError(m, r, e, can) ==
    IF m.ctl # "run" THEN m
    ELSE IF Throws(m, can) THEN Raise(m, r)
    ELSE [Emit(Overwrite(Burn(m, can), r), "E()", r) EXCEPT
              !.cell[r].elive = TRUE, !.cell[r].vlive = FALSE,
              !.cell[r].err = e, !.cell[r].has_value_ = FALSE]

\* this->value_ = ...: T's own assignment operator.
assignT(m, r, v, can) ==
    IF m.ctl # "run" THEN m
    ELSE LET m0 == IF m.cell[r].vlive THEN m ELSE Undefined(m, "T=!", r)
         IN  IF m0.ctl # "run" THEN m0
             ELSE IF Throws(m0, can) THEN Raise(m0, r)
             ELSE [Emit(Burn(m0, can), "T=", r) EXCEPT !.cell[r].val = v]

\* this->error_ = ...: Error<E>'s own assignment operator.  On the
\* trivial storage the assignment starts the lifetime of error_.
assignE(m, r, e, can) ==
    IF m.ctl # "run" THEN m
    ELSE LET m0 == IF m.cell[r].elive \/ TrivialStorage THEN m
                   ELSE Undefined(m, "E=!", r)
         IN  IF m0.ctl # "run" THEN m0
             ELSE IF Throws(m0, can) THEN Raise(m0, r)
             ELSE [Emit(Burn(m0, can), "E=", r) EXCEPT
                       !.cell[r].err = e,
                       !.cell[r].elive = @ \/ TrivialStorage]

\* void assignValue(U&& value) { value_ = value; has_value_ = true; }
assignValue(m, r, v, can) ==
    LET m1 == assignT(m, r, v, can)
    IN  IF m1.ctl # "run" THEN m1 ELSE [m1 EXCEPT !.cell[r].has_value_ = TRUE]

\* void assignError(value) { error_ = value; has_value_ = false; }
assignError(m, r, e, can) ==
    LET m1 == assignE(m, r, e, can)
    IN  IF m1.ctl # "run" THEN m1 ELSE [m1 EXCEPT !.cell[r].has_value_ = FALSE]

\* ------------------------------------------------------- bookkeeping
\* The process has not been terminated and the run is within its bound.
Running == ~aborted /\ nops < MaxOps

\* The effect of a finished call on the program state.
Commit(m, op, tgt, src, arg) ==
    /\ cell' = m.cell
    /\ log' = m.log
    /\ last' = [op |-> op, tgt |-> tgt, src |-> src, arg |-> arg,
                outcome |-> IF m.ctl = "run" THEN "returned" ELSE m.ctl,
                exc |-> m.exc, ret |-> m.ret]
    /\ aborted' = (m.ctl = "abort")
    /\ nops' = nops + 1
    /\ UNCHANGED <<cfg, scopeVars, strVars, syncVars>>

\* A constructor that does not complete leaves no object behind.
CommitCtor(m, op, tgt, src, arg) ==
    Commit(IF m.ctl = "run" THEN m ELSE [m EXCEPT !.cell[tgt] = Absent],
           op, tgt, src, arg)

Arg(has, v, e) == [has |-> has, val |-> v, err |-> e]
ArgOf(c) == Arg(c.has_value_, c.val, c.err)
NoArg == Arg(FALSE, NoVal, NoVal)

Init ==
    /\ cfg \in Builds
    /\ cell = [r \in Obj |-> Absent]
    /\ log = <<>>
    /\ last = [op |-> "init", tgt |-> "a", src |-> "a", arg |-> NoArg,
               outcome |-> "returned", exc |-> NoVal, ret |-> NoVal]
    /\ aborted = FALSE
    /\ nops = 0
    /\ ScopeAtRest /\ StrAtRest /\ SyncAtRest

\* ------------------------------------------------------- constructors
\* ResultStorage() : value_(T{}), has_value_(true)
DefaultConstruct_NoValue(r) ==
    /\ Running /\ cell[r].st = "absent"
    /\ cfg.dfltT
    /\ LET m0 == Machine(0, FALSE)
           m1 == IF cfg.voidT
                 THEN [m0 EXCEPT !.cell[r] = Uninitialised]
                 ELSE [Emit(m0, "T()", r) EXCEPT !.cell[r] =
                           [Uninitialised EXCEPT !.vlive = TRUE,
                                !.val = DefaultT]]
       IN  CommitCtor(m1, "Result()", r, r, NoArg)

DefaultConstruct(r) ==
    /\ Running /\ cell[r].st = "absent"
    /\ cfg.dfltT
    /\ \E fuse \in FuseSet(~cfg.ndcT /\ ~cfg.voidT) :
        LET m0 == Machine(fuse, FALSE)
            m1 == IF cfg.voidT
                  THEN [m0 EXCEPT !.cell[r] =
                            [Uninitialised EXCEPT !.has_value_ = TRUE]]
                  ELSE IF Throws(m0, ~cfg.ndcT) THEN Raise(m0, r)
                  ELSE [Emit(m0, "T()", r) EXCEPT !.cell[r] =
                            [Uninitialised EXCEPT !.has_value_ = TRUE,
                                 !.vlive = TRUE, !.val = DefaultT]]
        IN  CommitCtor(m1, "Result()", r, r, NoArg)

\* explicit ResultStorage(U&& value) : value_(value), has_value_(true)
ConstructFromValue_Default(r) ==
    /\ Running /\ cell[r].st = "absent"
    /\ ~cfg.voidT
    /\ \E u \in UVals :
        LET m0 == Machine(0, FALSE)
            m1 == [Emit(m0, "T()", r) EXCEPT !.cell[r] =
                       [Uninitialised EXCEPT !.has_value_ = TRUE,
                            !.vlive = TRUE, !.val = DefaultT]]
        IN  CommitCtor(m1, "Result(U)", r, r, Arg(TRUE, u, NoVal))

ConstructFromValue(r) ==
    /\ Running /\ cell[r].st = "absent"
    /\ ~cfg.voidT
    /\ \E u \in UVals, mode \in {"copy", "move"} :
       \E fuse \in FuseSet(CanThrowT(mode)) :
        LET m0 == Machine(fuse, FALSE)
            m1 == IF Throws(m0, CanThrowT(mode)) THEN Raise(m0, r)
                  ELSE [Emit(m0, "T()", r) EXCEPT !.cell[r] =
                            [Uninitialised EXCEPT !.has_value_ = TRUE,
                                 !.vlive = TRUE, !.val = ConvertValue(u)]]
        IN  CommitCtor(m1, "Result(U)", r, r, Arg(TRUE, u, NoVal))

\* ResultStorage(const Error<G>&) / ResultStorage(Error<G>&&)
\*     : error_(error.value()), has_value_(false)
ConstructFromError_ByType(r) ==
    /\ Running /\ cell[r].st = "absent"
    /\ \E g \in UVals :
        LET m0 == Machine(0, FALSE)
            m1 == IF ~cfg.voidT /\ ConvertValue(g) \in TVals
                  THEN [Emit(m0, "T()", r) EXCEPT !.cell[r] =
                            [Uninitialised EXCEPT !.has_value_ = TRUE,
                                 !.vlive = TRUE, !.val = ConvertValue(g)]]
                  ELSE [Emit(m0, "E()", r) EXCEPT !.cell[r] =
                            [Uninitialised EXCEPT !.elive = TRUE,
                                 !.err = ConvertError(g)]]
        IN  CommitCtor(m1, "Result(Error)", r, r, Arg(FALSE, NoVal, g))

ConstructFromError(r) ==
    /\ Running /\ cell[r].st = "absent"
    /\ \E g \in UVals, mode \in {"copy", "move"} :
       \E fuse \in FuseSet(CanThrowE(mode)) :
        LET m0 == Machine(fuse, FALSE)
            m1 == IF Throws(m0, CanThrowE(mode)) THEN Raise(m0, r)
                  ELSE [Emit(m0, "E()", r) EXCEPT !.cell[r] =
                            [Uninitialised EXCEPT !.elive = TRUE,
                                 !.err = ConvertError(g)]]
        IN  CommitCtor(m1, "Result(Error)", r, r, Arg(FALSE, NoVal, g))

\* ~Result() = default; ~ResultStorage() { destruct(); }
Destroy(r) ==
    /\ Running /\ cell[r].st = "alive"
    /\ \E crash \in Crashes(r) :
        LET m1 == destruct(Machine(0, crash), r)
            m2 == IF m1.ctl = "run" /\ ~TrivialStorage
                     /\ (m1.cell[r].vlive \/ m1.cell[r].elive)
                  THEN Leak(m1, r) ELSE m1
        IN  Commit([m2 EXCEPT !.cell[r] = Absent], "~Result", r, r, NoArg)

\* ------------------------------------------------ sources of a payload
\* A Result an operation reads from is either one of the two objects or
\* a temporary Result<U, G> supplied by the caller.
Src == Obj \cup {"tmp"}

InputResults ==
    {Arg(TRUE, u, NoVal) : u \in UVals} \cup {Arg(FALSE, NoVal, g) : g \in UVals}

InputsOf(so) == IF so = "tmp" THEN InputResults ELSE {NoArg}

SrcHas(m, so, inp) == IF so = "tmp" THEN inp.has ELSE m.cell[so].has_value_
SrcVal(m, so, inp) == IF so = "tmp" THEN ConvertValue(inp.val) ELSE m.cell[so].val
SrcErr(m, so, inp) == IF so = "tmp" THEN ConvertError(inp.err) ELSE m.cell[so].err

\* Reading a payload object that is not constructed is undefined.
readT(m, so) ==
    IF m.ctl # "run" \/ so = "tmp" THEN m
    ELSE IF m.cell[so].vlive THEN m ELSE Undefined(m, "T?!", so)

readE(m, so) ==
    IF m.ctl # "run" \/ so = "tmp" THEN m
    ELSE IF m.cell[so].elive \/ TrivialStorage THEN m
    ELSE Undefined(m, "E?!", so)

\* What a completed move leaves in the payload it moved from.
movedT(m, so, mode) ==
    IF m.ctl = "run" /\ mode = "move" /\ so # "tmp"
    THEN [m EXCEPT !.cell[so].val = Moved] ELSE m

movedE(m, so, mode) ==
    IF m.ctl = "run" /\ mode = "move" /\ so # "tmp"
    THEN [m EXCEPT !.cell[so].err = Moved] ELSE m

\* -------------------------------------------- Result(const Result&) etc.
\* The four constructors from another Result share one body:
\*   ResultStorageWithOperations(uninitialised_tag{}), then
\*   if (other.has_value()) constructValue(*other);
\*   else constructError(other.error());
\* operator* is not declared when T is void, so for void T the body is
\* rejected.  When the payload constructor throws, the already complete
\* base class ResultStorage is destroyed: ~ResultStorage() { destruct(); }.
CtorName(so, mode) ==
    IF so = "tmp"
    THEN IF mode = "copy" THEN "Result(const Result<U,G>&)"
         ELSE "Result(Result<U,G>&&)"
    ELSE IF mode = "copy" THEN "Result(const Result&)" ELSE "Result(Result&&)"

ResultFromResult(m, r, so, inp, mode) ==
    IF cfg.voidT THEN [m EXCEPT !.ctl = "illformed"]
    ELSE
    LET m0 == [m EXCEPT !.cell[r] = Uninitialised]
        m1 == IF SrcHas(m0, so, inp)
              THEN movedT(constructValue(readT(m0, so), r,
                              SrcVal(m0, so, inp), CanThrowT(mode)), so, mode)
              ELSE movedE(constructError(readE(m0, so), r,
                              SrcErr(m0, so, inp), CanThrowE(mode)), so, mode)
    IN  IF m1.ctl = "threw"
        THEN LET m2 == destruct([m1 EXCEPT !.ctl = "run"], r)
             IN  IF m2.ctl = "run" THEN [m2 EXCEPT !.ctl = "threw"] ELSE m2
        ELSE m1

\* The choices worth distinguishing for an operation that reads the
\* Result so: whether the one payload operation it runs can throw, and the
\* outcomes of undefined behaviour when it can meet any.
SourceHas(so, inp) == IF so = "tmp" THEN inp.has ELSE cell[so].has_value_

CanThrowFrom(so, inp, mode) ==
    IF SourceHas(so, inp) THEN ~cfg.voidT /\ CanThrowT(mode)
    ELSE CanThrowE(mode)

CrashesFrom(so, fuse) ==
    IF fuse = 0 /\ (so = "tmp" \/ Sound(cell[so])) THEN {FALSE} ELSE BOOLEAN

ConstructFromResult(r) ==
    /\ Running /\ cell[r].st = "absent"
    /\ \E so \in Src \ {r}, mode \in {"copy", "move"} :
       \E inp \in InputsOf(so) :
       \E fuse \in FuseSet(CanThrowFrom(so, inp, mode)) :
       \E crash \in CrashesFrom(so, fuse) :
        /\ so # "tmp" => cell[so].st = "alive"
        /\ CommitCtor(ResultFromResult(Machine(fuse, crash), r, so, inp, mode),
                      CtorName(so, mode), r, so,
                      IF so = "tmp" THEN inp ELSE ArgOf(cell[so]))

\* ------------------------------------------- operator=(const Result&) etc.
\* The four assignments from another Result share one body:
\*   destruct();
\*   if (other.has_value()) { assignValue(other.value()) or, for void T,
\*   constructValue(); } else assignError(other.error());
AssignName(so, mode) ==
    IF so = "tmp"
    THEN IF mode = "copy" THEN "operator=(const Result<U,G>&)"
         ELSE "operator=(Result<U,G>&&)"
    ELSE IF mode = "copy" THEN "operator=(const Result&)"
         ELSE "operator=(Result&&)"

AssignResult_StealsSource(m, r, so, inp, mode) ==
    LET m1 == destruct(m, r)
    IN  IF m1.ctl # "run" THEN m1
        ELSE IF SrcHas(m1, so, inp)
        THEN IF ~cfg.voidT
             THEN movedT(assignValue(readT(m1, so), r, SrcVal(m1, so, inp),
                                     CanThrowT(mode)), so, "move")
             ELSE constructValue(m1, r, NoVal, FALSE)
        ELSE movedE(assignError(readE(m1, so), r, SrcErr(m1, so, inp),
                                CanThrowE(mode)), so, "move")

AssignResult_KeepAlternative(m, r, so, inp, mode) ==
    LET m1 == destruct(m, r)
    IN  IF m1.ctl # "run" THEN m1
        ELSE IF m1.cell[r].has_value_
        THEN IF ~cfg.voidT
             THEN movedT(assignValue(readT(m1, so), r, SrcVal(m1, so, inp),
                                     CanThrowT(mode)), so, mode)
             ELSE constructValue(m1, r, NoVal, FALSE)
        ELSE movedE(assignError(readE(m1, so), r, SrcErr(m1, so, inp),
                                CanThrowE(mode)), so, mode)

AssignResult(m, r, so, inp, mode) ==
    LET m1 == destruct(m, r)
    IN  IF m1.ctl # "run" THEN m1
        ELSE IF SrcHas(m1, so, inp)
        THEN IF ~cfg.voidT
             THEN movedT(assignValue(readT(m1, so), r, SrcVal(m1, so, inp),
                                     CanThrowT(mode)), so, mode)
             ELSE constructValue(m1, r, NoVal, FALSE)
        ELSE movedE(assignError(readE(m1, so), r, SrcErr(m1, so, inp),
                                CanThrowE(mode)), so, mode)

AssignFromResult(r) ==
    /\ Running /\ cell[r].st = "alive"
    /\ \E so \in Src, mode \in {"copy", "move"}, crash \in BOOLEAN :
       \E inp \in InputsOf(so) :
       \E fuse \in FuseSet(CanThrowFrom(so, inp, mode)) :
        /\ so # "tmp" => cell[so].st = "alive"
        /\ Commit(AssignResult(Machine(fuse, crash), r, so, inp, mode),
                  AssignName(so, mode), r, so,
                  IF so = "tmp" THEN inp ELSE ArgOf(cell[so]))

\* --------------------------------------------------- operator=(U&& value)
\*   if (has_value()) value_ = value;
\*   else { destructError(); constructValue(value); }
AssignU_NoDestruct(m, r, u, mode) ==
    IF m.cell[r].has_value_
    THEN assignT(m, r, ConvertValue(u), CanThrowT(mode))
    ELSE constructValue(m, r, ConvertValue(u), CanThrowT(mode))

AssignU(m, r, u, mode) ==
    IF m.cell[r].has_value_
    THEN assignT(m, r, ConvertValue(u), CanThrowT(mode))
    ELSE constructValue(destructError(m, r), r, ConvertValue(u),
                        CanThrowT(mode))

AssignFromValue(r) ==
    /\ Running /\ cell[r].st = "alive"
    /\ ~cfg.voidT
    /\ \E u \in UVals, mode \in {"copy", "move"}, crash \in Crashes(r) :
       \E fuse \in FuseSet(CanThrowT(mode)) :
        Commit(AssignU(Machine(fuse, crash), r, u, mode),
               "operator=(U&&)", r, "tmp", Arg(TRUE, u, NoVal))

\* ------------------- operator=(const Error<G>&) / operator=(Error<G>&&)
\*   if (!has_value()) error_ = error;
\*   else { destructValue(); constructError(error); }
AssignErr(m, r, e, mode) ==
    IF ~m.cell[r].has_value_
    THEN assignE(m, r, e, CanThrowE(mode))
    ELSE constructError(destructValue(m, r), r, e, CanThrowE(mode))

AssignFromError(r) ==
    /\ Running /\ cell[r].st = "alive"
    /\ \E e \in EVals, mode \in {"copy", "move"}, crash \in Crashes(r) :
       \E fuse \in FuseSet(CanThrowE(mode)) :
        Commit(AssignErr(Machine(fuse, crash), r, e, mode),
               "operator=(Error)", r, "tmp", Arg(FALSE, NoVal, e))

\* ------------------------------------------------------ emplace(args...)
\* Offered only when T is nothrow constructible from the arguments.
\*   if (has_value()) value_ = T(args...);
\*   else { destructError(); constructValue(args...); }
EmplaceArgs_NoDestruct(m, r, u) ==
    IF m.cell[r].has_value_
    THEN assignT(m, r, ConvertValue(u), cfg.moveThrowsT)
    ELSE constructValue(m, r, ConvertValue(u), FALSE)

EmplaceArgs(m, r, u) ==
    IF m.cell[r].has_value_
    THEN assignT(m, r, ConvertValue(u), cfg.moveThrowsT)
    ELSE constructValue(destructError(m, r), r, ConvertValue(u), FALSE)

\* emplace() for void T:
\*   if (!has_value()) { destructError(); constructValue(); }
EmplaceVoid(m, r) ==
    IF ~m.cell[r].has_value_
    THEN constructValue(destructError(m, r), r, NoVal, FALSE)
    ELSE m

Emplace(r) ==
    /\ Running /\ cell[r].st = "alive"
    /\ \E crash \in Crashes(r) :
        IF cfg.voidT
        THEN Commit(EmplaceVoid(Machine(0, crash), r), "emplace", r, "tmp",
                    NoArg)
        ELSE \E u \in UVals, mode \in {"copy", "move"} :
             /\ ~CanThrowT(mode)
             /\ Commit(EmplaceArgs(Machine(0, crash), r, u), "emplace", r,
                       "tmp", Arg(TRUE, u, NoVal))

\* ------------------------------------------------------------- swap
\* std::swap(x, y): T tmp(move(x)); x = move(y); y = move(tmp);
\* for void T the payload is the empty void_placeholder.
stdSwapT(m, r, o) ==
    IF cfg.voidT THEN m
    ELSE
    LET m0 == readT(m, r)
        tmp == m.cell[r].val
    IN  IF m0.ctl # "run" THEN m0
        ELSE IF Throws(m0, cfg.moveThrowsT) THEN Raise(m0, r)
        ELSE
        LET m1 == [Burn(m0, cfg.moveThrowsT) EXCEPT !.cell[r].val = Moved]
            m2 == readT(m1, o)
            m3 == assignT(m2, r, m2.cell[o].val, cfg.moveThrowsT)
            m4 == IF m3.ctl = "run" THEN [m3 EXCEPT !.cell[o].val = Moved]
                  ELSE m3
        IN  assignT(m4, o, tmp, cfg.moveThrowsT)

stdSwapE(m, r, o) ==
    LET m0 == readE(m, r)
        tmp == m.cell[r].err
    IN  IF m0.ctl # "run" THEN m0
        ELSE IF Throws(m0, cfg.moveThrowsE) THEN Raise(m0, r)
        ELSE
        LET m1 == [Burn(m0, cfg.moveThrowsE) EXCEPT !.cell[r].err = Moved]
            m2 == readE(m1, o)
            m3 == assignE(m2, r, m2.cell[o].err, cfg.moveThrowsE)
            m4 == IF m3.ctl = "run" THEN [m3 EXCEPT !.cell[o].err = Moved]
                  ELSE m3
        IN  assignE(m4, o, tmp, cfg.moveThrowsE)

swapValueError_DestroyFirst(m, x, y, accepted) ==
    LET tmp == m.cell[y].err
        val == m.cell[x].val
        m1 == destructValue(destructError(m, y), x)
        m2 == constructValue(m1, y, val, cfg.moveThrowsT)
    IN  constructError(m2, x, tmp, cfg.moveThrowsE)

\* The last branch of swap: *this holds a value, other holds an error.
\* "accepted" says whether the compiler accepts other->error_ in the
\* third alternative (it does only when T has a member named error_).
swapValueError(m, x, y, accepted) ==
    IF cfg.voidT
    THEN \* constructError(move(other.error_)); other.destructError();
         \* other.constructValue();
         LET m1 == constructError(readE(m, y), x, m.cell[y].err,
                                  cfg.moveThrowsE)
             m2 == IF m1.ctl = "run" THEN [m1 EXCEPT !.cell[y].err = Moved]
                   ELSE m1
         IN  constructValue(destructError(m2, y), y, NoVal, FALSE)
    ELSE IF nothrowMoveE
    THEN \* auto tmp = move(other.error_); other.destructError();
         \* other.constructValue(move(value_)); destructValue();
         \* constructError(move(tmp));
         LET m0 == readE(m, y)
             tmp == m.cell[y].err
             m1 == IF m0.ctl = "run" THEN [m0 EXCEPT !.cell[y].err = Moved]
                   ELSE m0
             m2 == destructError(m1, y)
             m3 == constructValue(readT(m2, x), y, m2.cell[x].val,
                                  cfg.moveThrowsT)
             m4 == IF m3.ctl = "run" THEN [m3 EXCEPT !.cell[x].val = Moved]
                   ELSE m3
         IN  constructError(destructValue(m4, x), x, tmp, FALSE)
    ELSE IF nothrowMoveT
    THEN \* auto tmp = move(value_); destructValue();
         \* constructError(move(other->error_)); ...
         \* other.destructError(); other.constructValue(move(tmp));
         \* other->error_ goes through operator->: assert(has_value()),
         \* and then reads a member of the T that other does not hold.
         IF ~accepted THEN [m EXCEPT !.ctl = "illformed"]
         ELSE
         LET m0 == readT(m, x)
             tmp == m.cell[x].val
             m1 == IF m0.ctl = "run" THEN [m0 EXCEPT !.cell[x].val = Moved]
                   ELSE m0
             m2 == destructValue(m1, x)
             m3 == readT(assert(m2, m2.cell[y].has_value_, y), y)
             m4 == constructError(m3, x, m.junk, cfg.moveThrowsE)
         IN  constructValue(destructError(m4, y), y, tmp, FALSE)
    ELSE m

swap_NoExchange(m, r, o, accepted) ==
    IF m.cell[r].has_value_ = m.cell[o].has_value_ THEN m
    ELSE IF ~m.cell[r].has_value_ THEN swapValueError(m, o, r, accepted)
    ELSE swapValueError(m, r, o, accepted)

\* void swap(Result& other)
\* Junk: the contents other->error_ can yield in the branch that reads it
\* with assert() compiled out.
Junk ==
    IF ~cfg.voidT /\ ~nothrowMoveE /\ nothrowMoveT /\ cfg.ndebug
    THEN EVals \cup {Moved} ELSE {NoVal}

swap(m, r, o, accepted) ==
    IF ~cfg.voidT /\ ~nothrowMoveE /\ nothrowMoveT /\ ~accepted
    THEN [m EXCEPT !.ctl = "illformed"]
    ELSE IF m.cell[r].has_value_ /\ m.cell[o].has_value_ THEN stdSwapT(m, r, o)
    ELSE IF ~m.cell[r].has_value_ /\ ~m.cell[o].has_value_
         THEN stdSwapE(m, r, o)
    ELSE IF ~m.cell[r].has_value_ /\ m.cell[o].has_value_
         THEN swapValueError(m, o, r, accepted)
    ELSE swapValueError(m, r, o, accepted)

\* Whether the compiler accepts other->error_ matters in one branch only.
Accepts ==
    IF ~cfg.voidT /\ ~nothrowMoveE /\ nothrowMoveT THEN BOOLEAN ELSE {TRUE}

\* other->error_ is read only when one side holds a value and the other
\* an error.
JunkFor(r, o) ==
    IF cell[r].has_value_ # cell[o].has_value_ THEN Junk ELSE {NoVal}

SwapCrashes(r, o) ==
    IF Sound(cell[r]) /\ Sound(cell[o]) /\ JunkFor(r, o) = {NoVal}
    THEN {FALSE} ELSE BOOLEAN

Swap(r, o) ==
    /\ Running /\ cell[r].st = "alive" /\ cell[o].st = "alive"
    /\ nothrowMoveT \/ nothrowMoveE \/ cfg.voidT
    /\ \E fuse \in IF cfg.moveThrowsT \/ cfg.moveThrowsE
                     THEN 0 .. MaxFuse ELSE {0},
          crash \in SwapCrashes(r, o), accepted \in Accepts,
          junk \in JunkFor(r, o) :
        Commit(swap([Machine(fuse, crash) EXCEPT !.junk = junk], r, o,
                    accepted), "swap", r, o, ArgOf(cell[o]))

\* ------------------------------------------------------------ value()
\* value() & / value() const&:
\*   if (!has_value()) throw MissingResultValue(error_.value());
\*   return value_;
\* The exception is MissingResultValue<E>; exc is the E it carries.  The
\* copy of E into the exception object is taken to succeed: a failure
\* there reaches the caller as an exception of another type, and leaves
\* the Result as untouched as this one does.
valueLvalue_NoThrow(m, r) ==
    IF ~m.cell[r].has_value_
    THEN [m EXCEPT !.ret = m.cell[r].err]
    ELSE [m EXCEPT !.ret = m.cell[r].val]

valueLvalue(m, r) ==
    IF ~m.cell[r].has_value_
    THEN LET m1 == readE(m, r)
         IN  IF m1.ctl # "run" THEN m1
             ELSE [Raise(m1, r) EXCEPT !.exc = m.cell[r].err]
    ELSE LET m1 == readT(m, r)
         IN  IF m1.ctl # "run" THEN m1 ELSE [m1 EXCEPT !.ret = m.cell[r].val]

\* value() && / value() const&&: the error is moved into the exception.
valueRvalue(m, r) ==
    IF ~m.cell[r].has_value_
    THEN LET m1 == readE(m, r)
         IN  IF m1.ctl # "run" THEN m1
             ELSE [Raise(m1, r) EXCEPT !.exc = m.cell[r].err,
                                        !.cell[r].err = Moved]
    ELSE LET m1 == readT(m, r)
         IN  IF m1.ctl # "run" THEN m1 ELSE [m1 EXCEPT !.ret = m.cell[r].val]

Value(r) ==
    /\ Running /\ cell[r].st = "alive"
    /\ ~cfg.voidT
    /\ \E crash \in Crashes(r), rv \in BOOLEAN :
        IF rv
        THEN Commit(valueRvalue(Machine(0, crash), r), "value()&&", r, r,
                    NoArg)
        ELSE Commit(valueLvalue(Machine(0, crash), r), "value()&", r, r,
                    NoArg)

\* ------------------------------------------- has_value / operator bool
\*   return this->has_value_;
hasValue(m, r) == [m EXCEPT !.ret = m.cell[r].has_value_]

HasValue(r) ==
    /\ Running /\ cell[r].st = "alive"
    /\ \E op \in {"has_value()", "operator bool"} :
        Commit(hasValue(Machine(0, FALSE), r), op, r, r, NoArg)

\* ------------------------------------------- operator* / operator->
\* A reference (or pointer) to value_ is handed out; ret is the T it
\* designates, NoVal when no T is constructed there.
refT(m, r) ==
    IF m.ctl # "run" THEN m
    ELSE IF m.cell[r].vlive THEN [m EXCEPT !.ret = m.cell[r].val]
    ELSE [Emit(m, "T?!", r) EXCEPT !.ret = NoVal]

\*   assert(has_value()); return this->value_;   (or &this->value_,
\*   or std::move(this->value_): a cast, nothing is moved by the call)
deref_Unchecked(m, r) == refT(m, r)

deref(m, r) == refT(assert(m, m.cell[r].has_value_, r), r)

DerefOps == {"operator*&", "operator*&&", "operator->"}

Deref(r) ==
    /\ Running /\ cell[r].st = "alive"
    /\ ~cfg.voidT
    /\ \E op \in DerefOps :
        Commit(deref(Machine(0, FALSE), r), op, r, r, NoArg)

\* ---------------------------------------------------------- error()
\* A reference to the E inside error_ is handed out; ret is the E it
\* designates, NoVal when no Error<E> is constructed there.
refE(m, r) ==
    IF m.ctl # "run" THEN m
    ELSE IF m.cell[r].elive \/ (TrivialStorage /\ ~m.cell[r].has_value_)
         THEN [m EXCEPT !.ret = m.cell[r].err]
    ELSE [Emit(m, "E?!", r) EXCEPT !.ret = NoVal]

\*   assert(!has_value()); return this->error_.value();
\*   (or std::move(this->error_).value(): a cast)
error_Unchecked(m, r) == refE(m, r)

error(m, r) == refE(assert(m, ~m.cell[r].has_value_, r), r)

ErrorOps == {"error()&", "error()&&"}

ErrorObs(r) ==
    /\ Running /\ cell[r].st = "alive"
    /\ \E op \in ErrorOps :
        Commit(error(Machine(0, FALSE), r), op, r, r, NoArg)

\* --------------------------------------------------------- value_or
\* The T returned by value is built by T's copy or move constructor, or
\* by the conversion of the fallback; any of them may throw.
returnT(m, r, v, can) ==
    IF m.ctl # "run" THEN m
    ELSE IF Throws(m, can) THEN Raise(m, r)
    ELSE [Burn(m, can) EXCEPT !.ret = v]

\* T value_or(U&& other_value) const&:
\*   if (has_value()) return value();
\*   else return static_cast<T>(std::forward<U>(other_value));
valueOrLvalue_NoFallback(m, r, u, mode) ==
    returnT(valueLvalue(m, r), r, m.cell[r].val, cfg.copyThrowsT)

valueOrLvalue_Moving(m, r, u, mode) ==
    IF m.cell[r].has_value_
    THEN movedT(returnT(valueLvalue(m, r), r, m.cell[r].val,
                        cfg.copyThrowsT), r, "move")
    ELSE returnT(m, r, ConvertValue(u), CanThrowT(mode))

valueOrLvalue(m, r, u, mode) ==
    IF m.cell[r].has_value_
    THEN returnT(valueLvalue(m, r), r, m.cell[r].val, cfg.copyThrowsT)
    ELSE returnT(m, r, ConvertValue(u), CanThrowT(mode))

\* T value_or(U&& other_value) &&:
\*   if (has_value()) return std::move(value());
\*   else return static_cast<T>(std::forward<U>(other_value));
valueOrRvalue(m, r, u, mode) ==
    IF m.cell[r].has_value_
    THEN movedT(returnT(valueLvalue(m, r), r, m.cell[r].val,
                        cfg.moveThrowsT), r, "move")
    ELSE returnT(m, r, ConvertValue(u), CanThrowT(mode))

ValueOr(r) ==
    /\ Running /\ cell[r].st = "alive"
    /\ ~cfg.voidT
    /\ \E u \in UVals, crash \in Crashes(r), rv \in BOOLEAN :
       \E mode \in IF cell[r].has_value_ THEN {"copy"} ELSE {"copy", "move"} :
       \E fuse \in FuseSet(IF ~cell[r].has_value_ THEN CanThrowT(mode)
                            ELSE IF rv THEN cfg.moveThrowsT
                            ELSE cfg.copyThrowsT) :
        IF rv
        THEN Commit(valueOrRvalue(Machine(fuse, crash), r, u, mode),
                    "value_or()&&", r, "tmp", Arg(TRUE, u, NoVal))
        ELSE Commit(valueOrLvalue(Machine(fuse, crash), r, u, mode),
                    "value_or()&", r, "tmp", Arg(TRUE, u, NoVal))

\* ------------------------------------------------------------ Error<E>
\* class Error { E value_; };
Error(e) == [value_ |-> e]

\* operator==(const Error<E>& lhs, const Error<E>& rhs)
\*   return lhs.value() == rhs.value();
ErrorEq(lhs, rhs) == lhs.value_ = rhs.value_

\* operator!=(const Error<E>& lhs, const Error<E>& rhs)
\*   return lhs.value() != rhs.value();
ErrorNe_Same(lhs, rhs) == lhs.value_ = rhs.value_

ErrorNe(lhs, rhs) == lhs.value_ # rhs.value_

\* A comparison of two Error<E> objects; arg.val is the E wrapped on the
\* left, arg.err the E wrapped on the right, ret the two results.
CompareErrors ==
    /\ Running
    /\ \E l \in EVals, r \in EVals :
        Commit([Machine(0, FALSE) EXCEPT
                    !.ret = <<ErrorEq(Error(l), Error(r)),
                              ErrorNe(Error(l), Error(r))>>],
               "Error==", Subject, Subject, Arg(FALSE, l, r))

\* ---------------------------------------------------------- the system
Next ==
    \/ \E r \in Obj : DefaultConstruct(r)
    \/ \E r \in Obj : ConstructFromValue(r)
    \/ \E r \in Obj : ConstructFromError(r)
    \/ \E r \in Obj : ConstructFromResult(r)
    \/ \E r \in Obj : Destroy(r)
    \/ AssignFromResult(Subject)
    \/ AssignFromValue(Subject)
    \/ AssignFromError(Subject)
    \/ Emplace(Subject)
    \/ \E o \in Obj : Swap(Subject, o)
    \/ Value(Subject)
    \/ HasValue(Subject)
    \/ Deref(Subject)
    \/ ErrorObs(Subject)
    \/ ValueOr(Subject)
    \/ CompareErrors

Spec == Init /\ [][Next]_vars

\* ================================================== scope guards (scope.h)
\* One block of code, possibly a try block: guards are constructed in it,
\* released, and moved from; the block is then left normally or by an
\* exception, and the guards are destroyed in the reverse order of their
\* construction.  The block may itself run while exceptions are in flight
\* (inside a destructor called by stack unwinding), so
\* std::uncaught_exceptions() starts anywhere in 0 .. MaxUncaught.
MaxGuards == 2
MaxUncaught == 1

Policies == {"OnExitPolicy", "OnFailPolicy", "OnSuccessPolicy"}

\* The value of uncaught_on_creation_ that disarms a policy.
Disarmed == -1

\* explicit OnExitPolicy(bool execute) : execute_(execute)
\* explicit OnFailPolicy(bool execute) / OnSuccessPolicy(bool execute)
\*   : uncaught_on_creation_(execute ? std::uncaught_exceptions() : -1)
\* A policy object is a record with the member of its class; the member of
\* the other classes is kept at a fixed value.
Policy(p, execute, u) ==
    [policy |-> p,
     execute_ |-> p = "OnExitPolicy" /\ execute,
     uncaught_on_creation_ |->
        IF p # "OnExitPolicy" /\ execute THEN u ELSE Disarmed]

\* void release() noexcept
release_ExitOnly(pol) ==
    IF pol.policy = "OnExitPolicy" THEN [pol EXCEPT !.execute_ = FALSE]
    ELSE pol

release(pol) ==
    IF pol.policy = "OnExitPolicy" THEN [pol EXCEPT !.execute_ = FALSE]
    ELSE [pol EXCEPT !.uncaught_on_creation_ = Disarmed]

\* bool shouldExecute() const noexcept, u being std::uncaught_exceptions()
shouldExecute_FailOnAnyUncaught(pol, u) ==
    CASE pol.policy = "OnExitPolicy" -> pol.execute_
      [] pol.policy = "OnFailPolicy" ->
            pol.uncaught_on_creation_ # Disarmed /\ 0 < u
      [] pol.policy = "OnSuccessPolicy" ->
            pol.uncaught_on_creation_ # Disarmed
            /\ pol.uncaught_on_creation_ >= u

shouldExecute_SuccessOnNoUncaught(pol, u) ==
    CASE pol.policy = "OnExitPolicy" -> pol.execute_
      [] pol.policy = "OnFailPolicy" ->
            pol.uncaught_on_creation_ # Disarmed
            /\ pol.uncaught_on_creation_ < u
      [] pol.policy = "OnSuccessPolicy" ->
            pol.uncaught_on_creation_ # Disarmed /\ 0 >= u

shouldExecute(pol, u) ==
    CASE pol.policy = "OnExitPolicy" -> pol.execute_
      [] pol.policy = "OnFailPolicy" ->
            pol.uncaught_on_creation_ # Disarmed
            /\ pol.uncaught_on_creation_ < u
      [] pol.policy = "OnSuccessPolicy" ->
            pol.uncaught_on_creation_ # Disarmed
            /\ pol.uncaught_on_creation_ >= u

\* constexpr static bool execute_on_constructor_failure
execute_on_constructor_failure_Always(p) == TRUE

execute_on_constructor_failure(p) == p # "OnSuccessPolicy"

\* The exit functions: a lambda (copying and moving it cannot throw), the
\* ThrowOnCopy of the tests (nothrow move, a copy that throws), and a type
\* with no nothrow move whose copy may throw, which std::move_if_noexcept
\* copies.
EFs == {"lambda", "ThrowOnCopy", "CopyOnly"}

nothrowMoveEF(f) == f # "CopyOnly"

\* Whether a copy of f throws.
CopyThrows(f) ==
    CASE f = "lambda" -> {FALSE}
      [] f = "ThrowOnCopy" -> {TRUE}
      [] f = "CopyOnly" -> BOOLEAN

\* A guard object: EF exit_function; Policy execution_policy.  The other
\* fields are ghosts: whether the object exists, how often its destructor
\* has called exit_function, whether release() has been called on it, and
\* for a guard made by the move constructor the guard it was moved from
\* and whether that guard was armed at the time.
Guard(f, pol, from, armed) ==
    [exit_function |-> f, execution_policy |-> pol, st |-> "alive",
     runs |-> 0, released |-> FALSE, from |-> from, armed |-> armed]

Armed(pol) ==
    IF pol.policy = "OnExitPolicy" THEN pol.execute_
    ELSE pol.uncaught_on_creation_ # Disarmed

Alive == {i \in 1 .. Len(guards) : guards[i].st = "alive"}

Did(op, p, f, i, threw) == [op |-> op, p |-> p, f |-> f, i |-> i, threw |-> threw]

\* The variables of the Result model, at rest.
ResultAtRest ==
    /\ cfg = Build(Config(FALSE, TRUE, TRUE, TRUE, FALSE, TRUE, FALSE, FALSE),
                   FALSE)
    /\ cell = [r \in Obj |-> Absent]
    /\ log = <<>>
    /\ last = [op |-> "init", tgt |-> "a", src |-> "a", arg |-> NoArg,
               outcome |-> "returned", exc |-> NoVal, ret |-> NoVal]
    /\ aborted = FALSE
    /\ nops = 0

ScopeInit ==
    /\ guards = <<>>
    /\ uncaught \in 0 .. MaxUncaught
    /\ calls = [f \in EFs |-> 0]
    /\ phase = "body"
    /\ did = Did("{", "none", "none", 0, FALSE)
    /\ ResultAtRest /\ StrAtRest /\ SyncAtRest

\* An exception leaves the block.
Unwind(op, p, f) ==
    /\ uncaught' = uncaught + 1
    /\ phase' = "unwinding"
    /\ did' = Did(op, p, f, 0, TRUE)

\* explicit ScopeGuardBase(EFP&& f) noexcept(...), f an rvalue from which
\* EF is nothrow constructible:
\*   : exit_function(std::forward<EFP>(f)), execution_policy(true)
ConstructRvalue(p, f) ==
    /\ phase = "body" /\ Len(guards) < MaxGuards
    /\ nothrowMoveEF(f)
    /\ guards' = Append(guards, Guard(f, Policy(p, TRUE, uncaught), 0, FALSE))
    /\ did' = Did("ScopeGuardBase(EFP&&)", p, f, Len(guards) + 1, FALSE)
    /\ UNCHANGED <<uncaught, calls, phase, resultVars, strVars, syncVars>>

\* explicit ScopeGuardBase(EFP&& f), f an lvalue:
\*   try : exit_function(f), execution_policy(true) {}
\*   catch (...) {
\*     if constexpr (Policy::execute_on_constructor_failure) f();
\*     throw;
\*   }
ConstructLvalue(p, f) ==
    /\ phase = "body" /\ Len(guards) < MaxGuards
    /\ \E throws \in CopyThrows(f) :
        IF throws
        THEN /\ calls' = [calls EXCEPT ![f] =
                    IF execute_on_constructor_failure(p) THEN @ + 1 ELSE @]
             /\ Unwind("ScopeGuardBase(EFP&)", p, f)
             /\ UNCHANGED guards
        ELSE /\ guards' = Append(guards,
                              Guard(f, Policy(p, TRUE, uncaught), 0, FALSE))
             /\ did' = Did("ScopeGuardBase(EFP&)", p, f, Len(guards) + 1,
                           FALSE)
             /\ UNCHANGED <<uncaught, calls, phase>>
    /\ UNCHANGED <<resultVars, strVars, syncVars>>

\* ScopeGuardBase(ScopeGuardBase&& rhs) noexcept(...)
\*   : exit_function(std::move_if_noexcept(rhs.exit_function)),
\*     execution_policy(false)
\*   { execution_policy = std::move(rhs.execution_policy); rhs.release(); }
\* gs is the sequence of guards, i the index of rhs.
moveConstruct_KeepsSource(gs, i) ==
    LET rhs == gs[i]
        new == [Policy(rhs.execution_policy.policy, FALSE, uncaught)
                   EXCEPT !.execute_ = rhs.execution_policy.execute_,
                          !.uncaught_on_creation_ =
                              rhs.execution_policy.uncaught_on_creation_]
    IN  Append(gs, Guard(rhs.exit_function, new, i,
                         Armed(rhs.execution_policy)))

moveConstruct(gs, i) ==
    LET rhs == gs[i]
        new == [Policy(rhs.execution_policy.policy, FALSE, uncaught)
                   EXCEPT !.execute_ = rhs.execution_policy.execute_,
                          !.uncaught_on_creation_ =
                              rhs.execution_policy.uncaught_on_creation_]
    IN  Append([gs EXCEPT ![i].execution_policy = release(@),
                          ![i].released = TRUE],
               Guard(rhs.exit_function, new, i, Armed(rhs.execution_policy)))

MoveConstruct(i) ==
    /\ phase = "body" /\ Len(guards) < MaxGuards
    /\ i \in Alive
    /\ LET p == guards[i].execution_policy.policy
           f == guards[i].exit_function
       IN  \E throws \in IF nothrowMoveEF(f) THEN {FALSE} ELSE CopyThrows(f) :
            IF throws
            THEN /\ Unwind("ScopeGuardBase(ScopeGuardBase&&)", p, f)
                 /\ UNCHANGED <<guards, calls>>
            ELSE /\ guards' = moveConstruct(guards, i)
                 /\ did' = Did("ScopeGuardBase(ScopeGuardBase&&)", p, f,
                               Len(guards) + 1, FALSE)
                 /\ UNCHANGED <<uncaught, calls, phase>>
    /\ UNCHANGED <<resultVars, strVars, syncVars>>

\* void release() noexcept { execution_policy.release(); }
Release(i) ==
    /\ phase = "body"
    /\ i \in Alive
    /\ guards' = [guards EXCEPT ![i].execution_policy = release(@),
                                ![i].released = TRUE]
    /\ did' = Did("release()", guards[i].execution_policy.policy,
                  guards[i].exit_function, i, FALSE)
    /\ UNCHANGED <<uncaught, calls, phase, resultVars, strVars, syncVars>>

\* throw 42; in the block
Throw ==
    /\ phase = "body"
    /\ Unwind("throw", "none", "none")
    /\ UNCHANGED <<guards, calls, resultVars, strVars, syncVars>>

\* Control reaches the closing brace of the block.
Leave ==
    /\ phase = "body"
    /\ phase' = "leaving"
    /\ did' = Did("}", "none", "none", 0, FALSE)
    /\ UNCHANGED <<guards, uncaught, calls, resultVars, strVars, syncVars>>

\* ~ScopeGuardBase() { if (execution_policy.shouldExecute()) exit_function(); }
\* u is std::uncaught_exceptions().
destroy_NoCall(g, u) == [g EXCEPT !.st = "destroyed"]

destroy(g, u) ==
    [g EXCEPT !.st = "destroyed",
              !.runs = IF shouldExecute(g.execution_policy, u)
                       THEN @ + 1 ELSE @]

\* The guards of the block are destroyed last constructed first.
Top == CHOOSE i \in Alive : \A j \in Alive : j <= i

DestroyGuard ==
    /\ phase \in {"unwinding", "leaving"}
    /\ Alive # {}
    /\ LET g == destroy(guards[Top], uncaught)
       IN  /\ guards' = [guards EXCEPT ![Top] = g]
           /\ calls' = [calls EXCEPT ![g.exit_function] =
                            @ + (g.runs - guards[Top].runs)]
           /\ did' = Did("~ScopeGuardBase", g.execution_policy.policy,
                         g.exit_function, Top, phase = "unwinding")
    /\ UNCHANGED <<uncaught, phase, resultVars, strVars, syncVars>>

\* The block has been left; an exception that left it is caught by the
\* handler of the enclosing try block.
Finish ==
    /\ phase \in {"unwinding", "leaving"}
    /\ Alive = {}
    /\ phase' = "done"
    /\ uncaught' = IF phase = "unwinding" THEN uncaught - 1 ELSE uncaught
    /\ did' = Did("end", "none", "none", 0, phase = "unwinding")
    /\ UNCHANGED <<guards, calls, resultVars, strVars, syncVars>>

ScopeNext ==
    \/ \E p \in Policies, f \in EFs : ConstructRvalue(p, f)
    \/ \E p \in Policies, f \in EFs : ConstructLvalue(p, f)
    \/ \E i \in 1 .. MaxGuards : MoveConstruct(i)
    \/ \E i \in 1 .. MaxGuards : Release(i)
    \/ Throw
    \/ Leave
    \/ DestroyGuard
    \/ Finish

ScopeSpec == ScopeInit /\ [][ScopeNext]_vars

\* ============================== string algorithms (string_algorithms.h)
\* One call of strSplit or of strReplaceAll; a step is one iteration of
\* the function's loop.  A string is a sequence of characters.
MaxLen == 3
MaxPat == 2

\* The longest subject a run is followed to.  With a non-empty search
\* string no subject gets longer than this.
MaxSubject == MaxLen * MaxPat

Delim == "-"
Strings(alphabet, n) == UNION {[1 .. k -> alphabet] : k \in 0 .. n}

\* The calls made: strSplit(s, '-', out) and strReplaceAll(s, search,
\* replace).
SplitCalls ==
    {[fn |-> "strSplit", s |-> s, delim |-> Delim] :
        s \in Strings({"a", Delim}, MaxLen)}

ReplaceCalls ==
    {[fn |-> "strReplaceAll", s |-> s, search |-> x, replace |-> y] :
        s \in Strings({"a", "b"}, MaxLen),
        x \in Strings({"a", "b"}, MaxPat),
        y \in Strings({"a", "b"}, MaxPat)}

\* std::istringstream ss(s): the buffer, the get position and the state
\* bits.
Stream(s) == [buf |-> s, g |-> 0, eofbit |-> FALSE, failbit |-> FALSE]
NoStream == Stream(<<>>)

StrInit ==
    /\ call \in SplitCalls \cup ReplaceCalls
    /\ subject = IF call.fn = "strReplaceAll" THEN call.s ELSE <<>>
    /\ pos = 0
    /\ ss = IF call.fn = "strSplit" THEN Stream(call.s) ELSE NoStream
    /\ output = <<>>
    /\ pc = call.fn
    /\ ResultAtRest /\ ScopeAtRest /\ SyncAtRest

\* std::getline(ss, item, delim): the stream after the call and the item
\* read.  A stream that is not good() on entry fails; otherwise characters
\* are extracted up to and including the first delim, or up to the end of
\* the buffer, which sets eofbit; extracting nothing sets failbit.
getline_EmptyAtEnd(st, delim) ==
    LET n == Len(st.buf)
        stops == {j \in st.g + 1 .. n : st.buf[j] = delim}
        stop == CHOOSE j \in stops : \A k \in stops : j <= k
    IN  IF st.eofbit \/ st.failbit
        THEN [ss |-> [st EXCEPT !.failbit = TRUE], item |-> <<>>]
        ELSE IF stops # {}
        THEN [ss |-> [st EXCEPT !.g = stop],
              item |-> SubSeq(st.buf, st.g + 1, stop - 1)]
        ELSE [ss |-> [st EXCEPT !.g = n, !.eofbit = TRUE],
              item |-> SubSeq(st.buf, st.g + 1, n)]

getline(st, delim) ==
    LET n == Len(st.buf)
        stops == {j \in st.g + 1 .. n : st.buf[j] = delim}
        stop == CHOOSE j \in stops : \A k \in stops : j <= k
    IN  IF st.eofbit \/ st.failbit
        THEN [ss |-> [st EXCEPT !.failbit = TRUE], item |-> <<>>]
        ELSE IF stops # {}
        THEN [ss |-> [st EXCEPT !.g = stop],
              item |-> SubSeq(st.buf, st.g + 1, stop - 1)]
        ELSE [ss |-> [st EXCEPT !.g = n, !.eofbit = TRUE,
                                !.failbit = (st.g = n)],
              item |-> SubSeq(st.buf, st.g + 1, n)]

\* while (std::getline(ss, item, delim)) { *output_iterator++ = item; }
SplitStep ==
    /\ pc = "strSplit"
    /\ LET got == getline(ss, call.delim)
       IN  /\ ss' = got.ss
           /\ IF got.ss.failbit
              THEN pc' = "return" /\ UNCHANGED output
              ELSE output' = Append(output, got.item) /\ UNCHANGED pc
    /\ UNCHANGED <<call, subject, pos, resultVars, scopeVars, syncVars>>

\* std::string::npos
npos == -1

\* subject.find(search, pos): the first position at or after pos where
\* search occurs in subject, positions counted from 0.
find(str, search, from) ==
    LET hits == {i \in from .. Len(str) - Len(search) :
                    SubSeq(str, i + 1, i + Len(search)) = search}
    IN  IF hits = {} THEN npos
        ELSE CHOOSE i \in hits : \A k \in hits : i <= k

\* subject.replace(pos, len, replace)
replace(str, at, len, with) ==
    SubSeq(str, 1, at) \o with \o SubSeq(str, at + len + 1, Len(str))

\* pos += replace.length(), pos being the position just found
advance_Rescan(at, with) == at

advance(at, with) == at + Len(with)

\* while ((pos = subject.find(search, pos)) != std::string::npos) {
\*     subject.replace(pos, search.length(), replace);
\*     pos += replace.length();
\* }
\* return subject;
ReplaceStep ==
    /\ pc = "strReplaceAll"
    /\ LET at == find(subject, call.search, pos)
       IN  IF at = npos
           THEN pc' = "return" /\ pos' = npos /\ UNCHANGED subject
           ELSE /\ subject' = replace(subject, at, Len(call.search),
                                      call.replace)
                /\ Len(subject') <= MaxSubject
                /\ pos' = advance(at, call.replace)
                /\ UNCHANGED pc
    /\ UNCHANGED <<call, ss, output, resultVars, scopeVars, syncVars>>

StrNext == SplitStep \/ ReplaceStep

\* A call that has not returned executes its next iteration.
StrSpec == StrInit /\ [][StrNext]_vars /\ WF_vars(StrNext)

\* ===================================================== Barrier (barrier.h)
\* A Barrier of count threshold_ and the threads that call wait() on it.
\* A thread is outside wait() ("idle"), about to lock mutex_ ("lock"),
\* inside the critical section ("locked"), blocked in cv_.wait
\* ("waiting"), unblocked and about to lock mutex_ again ("woken"), or
\* evaluating the predicate of cv_.wait with mutex_ held ("check").
MaxThreads == 2
MaxWaits == 2
MaxSpurious == 1

Threads == 1 .. MaxThreads
NoThread == 0
Generations == 0 .. MaxThreads * MaxWaits

\* Barrier(std::size_t count)
\*   : threshold_(count), count_(count), generation_(0)
Barrier(count) ==
    [threshold_ |-> count, count_ |-> count, generation_ |-> 0,
     mutex_ |-> NoThread, cv_ |-> {}]

\* The locals of a thread: its position, current_generation, and the
\* number of wait() calls it has made.
Party == [pc |-> "idle", current_generation |-> 0, calls |-> 0]

\* Ghost counts: per generation the threads that entered wait() in it and
\* those that returned from it, and the spurious wake-ups so far.
Round ==
    [entered |-> [g \in Generations |-> 0],
     returned |-> [g \in Generations |-> 0], spurious |-> 0]

BarrierInit ==
    /\ \E count \in 1 .. MaxThreads : barrier = Barrier(count)
    /\ party = [t \in Threads |-> Party]
    /\ round = Round
    /\ SemAtRest /\ ResultAtRest /\ ScopeAtRest /\ StrAtRest

BarrierRest == <<semVars, resultVars, scopeVars, strVars>>

\* A thread calls wait().
BCall(t) ==
    /\ party[t].pc = "idle" /\ party[t].calls < MaxWaits
    /\ party' = [party EXCEPT ![t].pc = "lock", ![t].calls = @ + 1]
    /\ UNCHANGED <<barrier, round, BarrierRest>>

\* std::unique_lock<std::mutex> lock{mutex_};
BLock(t) ==
    /\ party[t].pc = "lock" /\ barrier.mutex_ = NoThread
    /\ barrier' = [barrier EXCEPT !.mutex_ = t]
    /\ party' = [party EXCEPT ![t].pc = "locked"]
    /\ UNCHANGED <<round, BarrierRest>>

\* cv_.notify_all(): the threads unblocked.
notify_all_None(cv) == {}

notify_all(cv) == cv

\* The predicate of cv_.wait: current_generation != generation_
passed_Always(current_generation, generation) == TRUE

passed(current_generation, generation) == current_generation # generation

Unblock(ps, ts) ==
    [u \in Threads |-> IF u \in ts THEN [ps[u] EXCEPT !.pc = "woken"]
                       ELSE ps[u]]

\* auto current_generation = generation_;
\* if (--count_ == 0) { generation_++; count_ = threshold_;
\*                      cv_.notify_all(); }
\* else cv_.wait(lock, [...] { return current_generation != generation_; });
BArrive(t) ==
    /\ party[t].pc = "locked"
    /\ LET g == barrier.generation_
           entered == [round EXCEPT !.entered[g] = @ + 1]
       IN  IF barrier.count_ - 1 = 0
           THEN /\ barrier' = [barrier EXCEPT
                        !.generation_ = @ + 1, !.count_ = barrier.threshold_,
                        !.cv_ = @ \ notify_all(@), !.mutex_ = NoThread]
                /\ party' = [Unblock(party, notify_all(barrier.cv_))
                                EXCEPT ![t].pc = "idle",
                                       ![t].current_generation = g]
                /\ round' = [entered EXCEPT !.returned[g] = @ + 1]
           ELSE IF passed(g, barrier.generation_)
           THEN /\ barrier' = [barrier EXCEPT !.count_ = @ - 1,
                                              !.mutex_ = NoThread]
                /\ party' = [party EXCEPT ![t].pc = "idle",
                                          ![t].current_generation = g]
                /\ round' = [entered EXCEPT !.returned[g] = @ + 1]
           ELSE /\ barrier' = [barrier EXCEPT !.count_ = @ - 1,
                        !.cv_ = @ \cup {t}, !.mutex_ = NoThread]
                /\ party' = [party EXCEPT ![t].pc = "waiting",
                                          ![t].current_generation = g]
                /\ round' = entered
    /\ UNCHANGED BarrierRest

\* A spurious wake-up of a thread blocked in cv_.wait.
BSpurious(t) ==
    /\ party[t].pc = "waiting" /\ round.spurious < MaxSpurious
    /\ barrier' = [barrier EXCEPT !.cv_ = @ \ {t}]
    /\ party' = [party EXCEPT ![t].pc = "woken"]
    /\ round' = [round EXCEPT !.spurious = @ + 1]
    /\ UNCHANGED BarrierRest

\* An unblocked thread locks mutex_ again inside cv_.wait.
BRelock(t) ==
    /\ party[t].pc = "woken" /\ barrier.mutex_ = NoThread
    /\ barrier' = [barrier EXCEPT !.mutex_ = t]
    /\ party' = [party EXCEPT ![t].pc = "check"]
    /\ UNCHANGED <<round, BarrierRest>>

\* cv_.wait evaluates the predicate: wait() returns, or the thread blocks
\* again.
BCheck(t) ==
    /\ party[t].pc = "check"
    /\ IF passed(party[t].current_generation, barrier.generation_)
       THEN /\ barrier' = [barrier EXCEPT !.mutex_ = NoThread]
            /\ party' = [party EXCEPT ![t].pc = "idle"]
            /\ round' = [round EXCEPT
                    !.returned[party[t].current_generation] = @ + 1]
       ELSE /\ barrier' = [barrier EXCEPT !.cv_ = @ \cup {t},
                                          !.mutex_ = NoThread]
            /\ party' = [party EXCEPT ![t].pc = "waiting"]
            /\ UNCHANGED round
    /\ UNCHANGED BarrierRest

\* The steps a thread inside wait() takes when it is scheduled.
BRun(t) == BLock(t) \/ BArrive(t) \/ BRelock(t) \/ BCheck(t)

BarrierNext ==
    \/ \E t \in Threads : BCall(t)
    \/ \E t \in Threads : BLock(t)
    \/ \E t \in Threads : BArrive(t)
    \/ \E t \in Threads : BSpurious(t)
    \/ \E t \in Threads : BRelock(t)
    \/ \E t \in Threads : BCheck(t)

\* Every thread that can run is scheduled again and again.
BarrierSpec ==
    BarrierInit /\ [][BarrierNext]_vars /\ \A t \in Threads : WF_vars(BRun(t))

\* ================================================= Semaphore (semaphore.h)
\* A Semaphore and the threads that call notify(), wait() and try_wait()
\* on it (the timed waits wait_for() and wait_until() are not modelled).
\* A thread is outside every call ("idle"), about to lock mutex_
\* ("lock"), inside the critical section ("locked"), blocked in cv_.wait
\* ("waiting"), unblocked by a notification or spuriously and about to
\* lock mutex_ again ("woken"), or evaluating the predicate of cv_.wait
\* with mutex_ held ("check").
MaxUsers == 3
MaxCalls == 2
MaxCount == 1

Users == 1 .. MaxUsers
Consumers == {"wait", "try_wait"}
SemOps == {"notify"} \cup Consumers

\* Semaphore(std::size_t count = 0) : count_(count)
Semaphore(count) == [count_ |-> count, mutex_ |-> NoThread, cv_ |-> {}]

\* A thread: its position, the member function it is in ("none" outside
\* a call), the value its last call returned, and the number of calls it
\* has made.
User == [pc |-> "idle", op |-> "none", ret |-> "none", calls |-> 0]

\* Ghost counts: the count at construction, the notify() calls that have
\* incremented, the completed wait() calls, the successful try_wait()
\* calls, the spurious wake-ups.
Tally(count) ==
    [initial |-> count, notifies |-> 0, waits |-> 0, tries |-> 0,
     spurious |-> 0]

SemInit ==
    /\ \E count \in 0 .. MaxCount :
          sem = Semaphore(count) /\ tally = Tally(count)
    /\ user = [t \in Users |-> User]
    /\ BarrierAtRest /\ ResultAtRest /\ ScopeAtRest /\ StrAtRest

SemRest == <<barrierVars, resultVars, scopeVars, strVars>>

\* A thread calls a member function.
SCall(t) ==
    /\ user[t].pc = "idle" /\ user[t].calls < MaxCalls
    /\ \E op \in SemOps :
          user' = [user EXCEPT ![t] = [pc |-> "lock", op |-> op,
                                       ret |-> "none", calls |-> @.calls + 1]]
    /\ UNCHANGED <<sem, tally, SemRest>>

\* std::lock_guard / std::unique_lock lock{mutex_};
SLock(t) ==
    /\ user[t].pc = "lock" /\ sem.mutex_ = NoThread
    /\ sem' = [sem EXCEPT !.mutex_ = t]
    /\ user' = [user EXCEPT ![t].pc = "locked"]
    /\ UNCHANGED <<tally, SemRest>>

\* cv_.notify_one(): the sets of threads it may unblock.
notify_one_None(cv) == {{}}

notify_one(cv) == IF cv = {} THEN {{}} ELSE {{t} : t \in cv}

\* The predicate of the waits: count_ > 0
positive_Always(count) == TRUE

positive(count) == count > 0

\* --count_ (a result below zero stands for the wrapped std::size_t)
decrement(count) == count - 1

Return(us, t, ret) ==
    [us EXCEPT ![t].pc = "idle", ![t].op = "none", ![t].ret = ret]

\* ++count_; cv_.notify_one();
SNotify(t) ==
    /\ user[t].pc = "locked" /\ user[t].op = "notify"
    /\ \E ts \in notify_one(sem.cv_) :
          /\ sem' = [sem EXCEPT !.count_ = @ + 1, !.cv_ = @ \ ts,
                                !.mutex_ = NoThread]
          /\ user' = Return([u \in Users |->
                               IF u \in ts THEN [user[u] EXCEPT !.pc = "woken"]
                               ELSE user[u]], t, "void")
    /\ tally' = [tally EXCEPT !.notifies = @ + 1]
    /\ UNCHANGED SemRest

\* The thread blocks in cv_.wait, releasing mutex_.
Block(t) ==
    /\ sem' = [sem EXCEPT !.cv_ = @ \cup {t}, !.mutex_ = NoThread]
    /\ user' = [user EXCEPT ![t].pc = "waiting"]
    /\ UNCHANGED tally

\* --count_ and return from wait().
Take(t) ==
    /\ sem' = [sem EXCEPT !.count_ = decrement(@), !.mutex_ = NoThread]
    /\ user' = Return(user, t, "void")
    /\ tally' = [tally EXCEPT !.waits = @ + 1]

\* cv_.wait(lock, [&] { return count_ > 0; }); --count_;
\* The predicate is evaluated with mutex_ held, on entry and after every
\* wake-up.
SWait(t) ==
    /\ user[t].pc \in {"locked", "check"} /\ user[t].op = "wait"
    /\ IF positive(sem.count_) THEN Take(t) ELSE Block(t)
    /\ UNCHANGED SemRest

\* if (count_ > 0) { --count_; return true; } return false;
STryWait(t) ==
    /\ user[t].pc = "locked" /\ user[t].op = "try_wait"
    /\ IF sem.count_ > 0
       THEN /\ sem' = [sem EXCEPT !.count_ = decrement(@),
                                  !.mutex_ = NoThread]
            /\ user' = Return(user, t, "true")
            /\ tally' = [tally EXCEPT !.tries = @ + 1]
       ELSE /\ sem' = [sem EXCEPT !.mutex_ = NoThread]
            /\ user' = Return(user, t, "false")
            /\ UNCHANGED tally
    /\ UNCHANGED SemRest

\* A spurious wake-up of a thread blocked in cv_.wait.
SSpurious(t) ==
    /\ user[t].pc = "waiting" /\ tally.spurious < MaxSpurious
    /\ sem' = [sem EXCEPT !.cv_ = @ \ {t}]
    /\ user' = [user EXCEPT ![t].pc = "woken"]
    /\ tally' = [tally EXCEPT !.spurious = @ + 1]
    /\ UNCHANGED SemRest

\* An unblocked thread locks mutex_ again inside cv_.wait.
SRelock(t) ==
    /\ user[t].pc = "woken" /\ sem.mutex_ = NoThread
    /\ sem' = [sem EXCEPT !.mutex_ = t]
    /\ user' = [user EXCEPT ![t].pc = "check"]
    /\ UNCHANGED <<tally, SemRest>>

\* The steps a thread inside a call takes when it is scheduled.
SRun(t) ==
    SLock(t) \/ SNotify(t) \/ SWait(t) \/ STryWait(t) \/ SRelock(t)

SemNext ==
    \/ \E t \in Users : SCall(t)
    \/ \E t \in Users : SLock(t)
    \/ \E t \in Users : SNotify(t)
    \/ \E t \in Users : SWait(t)
    \/ \E t \in Users : STryWait(t)
    \/ \E t \in Users : SSpurious(t)
    \/ \E t \in Users : SRelock(t)

\* Every thread that can run is scheduled again and again.
SemSpec == SemInit /\ [][SemNext]_vars /\ \A t \in Users : WF_vars(SRun(t))

\* ============================================================ claims
Count(lg, ev, r) == Cardinality({i \in 1 .. Len(lg) : lg[i] = <<ev, r>>})
Before(lg, ev1, ev2, r) ==
    \E i, j \in 1 .. Len(lg) : i < j /\ lg[i] = <<ev1, r>> /\ lg[j] = <<ev2, r>>

\* A cell that holds a constructed value / a constructed error.  For void T
\* the value alternative has no payload object.
HoldsValue(c) ==
    /\ c.st = "alive" /\ c.has_value_ /\ ~c.elive
    /\ cfg.voidT \/ c.vlive
HoldsError(c) == c.st = "alive" /\ ~c.has_value_ /\ c.elive /\ ~c.vlive
ExactlyOne(c) == HoldsValue(c) \/ HoldsError(c)
AllExactlyOne(cs) == \A r \in Obj : cs[r].st = "alive" => ExactlyOne(cs[r])

\* What a Result holds, as its observers report it.
Holds(c) == IF c.has_value_ THEN <<"value", c.val>> ELSE <<"error", c.err>>

Returned == last'.outcome = "returned"
Threw == last'.outcome = "threw"
Target == last'.tgt

ResultAssignments ==
    {"operator=(const Result&)", "operator=(Result&&)",
     "operator=(const Result<U,G>&)", "operator=(Result<U,G>&&)"}
ResultConstructors ==
    {"Result(const Result&)", "Result(Result&&)",
     "Result(const Result<U,G>&)", "Result(Result<U,G>&&)"}
Constructors ==
    ResultConstructors \cup {"Result()", "Result(U)", "Result(Error)"}
Assignments == ResultAssignments \cup {"operator=(U&&)", "operator=(Error)"}

\* C1: when every Result holds exactly one constructed alternative, the one
\* has_value() names, and a public operation returns normally, every Result
\* again holds exactly one constructed alternative, the one has_value() names.
C1_ExactlyOneAlternative ==
    [][(AllExactlyOne(cell) /\ Returned) => AllExactlyOne(cell')]_vars

\* C2: no operation on a constructed Result, its destruction included, runs
\* a payload destructor on storage in which no object of that type is
\* constructed (a second destruction, or the destruction of the alternative
\* that is not active), and none drops a constructed payload without
\* destroying it.
C2_DestroyedExactlyOnce ==
    last.op \notin Constructors =>
        \A i \in 1 .. Len(log) : log[i][1] \notin {"~T!", "~E!", "leak"}

\* C3: a value assigned onto an error-holding Result destroys the old error
\* exactly once and leaves the value alternative with the assigned value; an
\* Error assigned onto a value-holding Result destroys the old value exactly
\* once and leaves the error alternative with the assigned error.
C3_AssignmentOverwrite ==
    [][/\ (last'.op = "operator=(U&&)" /\ Returned /\ HoldsError(cell[Target]))
          => /\ Count(log', "~E", Target) = 1
             /\ Count(log', "~E!", Target) = 0
             /\ HoldsValue(cell'[Target])
             /\ cell'[Target].val = ConvertValue(last'.arg.val)
       /\ (last'.op = "operator=(Error)" /\ Returned /\ HoldsValue(cell[Target]))
          => /\ cfg.voidT \/ Count(log', "~T", Target) = 1
             /\ Count(log', "~T!", Target) = 0
             /\ HoldsError(cell'[Target])
             /\ cell'[Target].err = last'.arg.err]_vars

C3_Witness ==
    /\ last.op = "operator=(U&&)" /\ last.outcome = "returned"
    /\ log = <<(<<"~E", "a">>), (<<"T()", "a">>)>>
    /\ HoldsValue(cell["a"]) /\ cell["a"].val = ConvertValue(BigInt)

C5_EmplaceReplaces ==
    [][(last'.op = "emplace" /\ HoldsError(cell[Target]))
        => /\ Returned
           /\ HoldsValue(cell'[Target])
           /\ ~cfg.voidT => cell'[Target].val = ConvertValue(last'.arg.val)
           /\ ~TrivialStorage =>
                /\ Count(log', "~E", Target) = 1
                /\ Count(log', "~E!", Target) = 0
                /\ Count(log', "leak", Target) = 0
                /\ Before(log', "~E",
                          IF cfg.voidT THEN "void_placeholder" ELSE "T()",
                          Target)]_vars

C5_Witness ==
    /\ last.op = "emplace" /\ last.outcome = "returned"
    /\ ~cfg.voidT
    /\ log = <<(<<"~E", "a">>), (<<"T()", "a">>)>>
    /\ HoldsValue(cell["a"]) /\ cell["a"].val = ConvertValue(last.arg.val)

\* C6: an assignment that brings the alternative the destination already
\* holds runs no payload destructor on the destination and updates the
\* payload through its own assignment operator.
C6_AssignSameAlternative ==
    [][(/\ last'.op \in Assignments /\ Returned
        /\ ExactlyOne(cell[Target])
        /\ last'.arg.has = cell[Target].has_value_)
        => /\ Count(log', "~T", Target) = 0
           /\ Count(log', "~E", Target) = 0
           /\ (cfg.voidT /\ last'.arg.has)
              \/ Count(log', IF last'.arg.has THEN "T=" ELSE "E=", Target) = 1
       ]_vars

\* C7: when the construction of the new payload fails during an assignment
\* that changes the alternative, the Result still holds its old payload.
C7_FailedReplaceKeepsOld ==
    [][(/\ last'.op \in Assignments /\ Threw
        /\ ExactlyOne(cell[Target])
        /\ last'.arg.has # cell[Target].has_value_)
        => cell'[Target] = cell[Target]]_vars

\* C8: after a.swap(b) returns, a holds what b held and b holds what a held.
C8_SwapExchanges ==
    [][(/\ last'.op = "swap" /\ Returned
        /\ ExactlyOne(cell[Target]) /\ ExactlyOne(cell[last'.src]))
        => /\ ExactlyOne(cell'[Target]) /\ ExactlyOne(cell'[last'.src])
           /\ Holds(cell'[Target]) = Holds(cell[last'.src])
           /\ Holds(cell'[last'.src]) = Holds(cell[Target])]_vars

C8_Witness ==
    /\ last.op = "swap" /\ last.outcome = "returned" /\ last.src = "b"
    /\ ~last.arg.has /\ ~cfg.voidT
    /\ HoldsError(cell["a"]) /\ cell["a"].err = last.arg.err
    /\ HoldsValue(cell["b"]) /\ cell["b"].val = ConvertValue(BigInt)

\* C9: when a payload move fails during a swap between a value-holding and
\* an error-holding Result, the two are not both left without a constructed
\* alternative.
Live(c) == c.vlive \/ c.elive \/ (cfg.voidT /\ c.has_value_)

C9_SwapFailureLeavesOne ==
    [][(/\ last'.op = "swap" /\ Threw
        /\ ExactlyOne(cell[Target]) /\ ExactlyOne(cell[last'.src])
        /\ cell[Target].has_value_ # cell[last'.src].has_value_)
        => Live(cell'[Target]) \/ Live(cell'[last'.src])]_vars

C9_Witness ==
    /\ last.op = "swap" /\ last.outcome = "threw" /\ last.src = "b"
    /\ ~last.arg.has
    /\ HoldsValue(cell["a"]) /\ ~Live(cell["b"])

\* C10: constructing a Result from another Result whose payload conversion
\* does not fail yields a Result with the source's alternative and the
\* converted payload; for void T, the discriminant and the error.
C10_ConstructFromResult ==
    [][(/\ last'.op \in ResultConstructors
        /\ last'.outcome \notin {"threw", "abort"}
        /\ last'.src # "tmp" => ExactlyOne(cell[last'.src]))
        => /\ cell'[Target].st = "alive" /\ ExactlyOne(cell'[Target])
           /\ cell'[Target].has_value_ = last'.arg.has
           /\ Holds(cell'[Target]) =
                IF last'.src = "tmp"
                THEN IF last'.arg.has
                     THEN <<"value", ConvertValue(last'.arg.val)>>
                     ELSE <<"error", ConvertError(last'.arg.err)>>
                ELSE Holds(cell[last'.src])]_vars

\* What the Result an operation read from held, converted to T and E
\* (a void value alternative carries no payload).
Source ==
    IF last'.src = "tmp"
    THEN IF last'.arg.has
         THEN <<"value", IF cfg.voidT THEN NoVal
                         ELSE ConvertValue(last'.arg.val)>>
         ELSE <<"error", ConvertError(last'.arg.err)>>
    ELSE Holds(cell[last'.src])

\* C11: when an assignment from another Result (copy, move or converting)
\* returns, the destination reports the source's alternative and a payload
\* equal to the source's converted payload, whichever alternative it held
\* before.  (Whether the payload object it reports is a constructed one is
\* the matter of C1 and C6.)
C11_AssignFromResult ==
    [][(/\ last'.op \in ResultAssignments /\ Returned
        /\ last'.src # Target
        /\ ExactlyOne(cell[Target])
        /\ last'.src # "tmp" => ExactlyOne(cell[last'.src]))
        => /\ cell'[Target].has_value_ = last'.arg.has
           /\ Holds(cell'[Target]) = Source]_vars

C11_Witness ==
    /\ last.op = "operator=(const Result<U,G>&)" /\ last.outcome = "returned"
    /\ ~last.arg.has /\ last.arg.err = BigInt
    /\ Count(log, "~T", "a") = 1
    /\ ~cell["a"].has_value_ /\ cell["a"].err = ConvertError(BigInt)

\* C12: a default-constructed Result holds the value alternative: for
\* non-void T a constructed T equal to T{}, for void T no payload; and
\* has_value(), operator bool and value() called on it next report true,
\* true and T{}.
C12_DefaultSuccess ==
    [][/\ (last'.op = "Result()")
          => /\ Returned
             /\ HoldsValue(cell'[Target])
             /\ cell'[Target].val = IF cfg.voidT THEN NoVal ELSE DefaultT
       /\ (/\ last.op = "Result()" /\ last.tgt = Target
           /\ last'.op \in {"has_value()", "operator bool"})
          => Returned /\ last'.ret = TRUE
       /\ (/\ last.op = "Result()" /\ last.tgt = Target
           /\ last'.op \in {"value()&", "value()&&"})
          => Returned /\ last'.ret = DefaultT]_vars

C12_Witness ==
    /\ last.op = "has_value()" /\ last.ret = TRUE
    /\ ~cfg.voidT /\ log = <<>>
    /\ HoldsValue(cell["a"]) /\ cell["a"].val = DefaultT
    /\ cell["b"].st = "absent" /\ nops = 2

\* C13: Result<T,E>(v) holds the value alternative with the T made from v,
\* and has_value() and value() called on it next report true and that T;
\* Result<T,E>(Error(e)) holds the error alternative with the E made from e,
\* and has_value() and error() called on it next report false and that E.
\* For a v that is a T (an e that is an E) the conversion changes nothing.
C13_RoundTrip ==
    [][/\ (last'.op = "Result(U)" /\ Returned)
          => /\ HoldsValue(cell'[Target])
             /\ cell'[Target].val = ConvertValue(last'.arg.val)
             /\ last'.arg.val \in TVals => cell'[Target].val = last'.arg.val
       /\ (last'.op = "Result(Error)" /\ Returned)
          => /\ HoldsError(cell'[Target])
             /\ cell'[Target].err = ConvertError(last'.arg.err)
             /\ last'.arg.err \in EVals => cell'[Target].err = last'.arg.err
       /\ (/\ last.op = "Result(U)" /\ last.outcome = "returned"
           /\ last.tgt = Target)
          => /\ last'.op \in {"has_value()", "operator bool"}
                => last'.ret = TRUE
             /\ last'.op \in {"value()&", "value()&&"}
                => Returned /\ last'.ret = ConvertValue(last.arg.val)
       /\ (/\ last.op = "Result(Error)" /\ last.outcome = "returned"
           /\ last.tgt = Target)
          => /\ last'.op \in {"has_value()", "operator bool"}
                => last'.ret = FALSE
             /\ last'.op \in ErrorOps
                => Returned /\ last'.ret = ConvertError(last.arg.err)]_vars

C13_Witness ==
    /\ last.op = "value()&" /\ last.outcome = "returned"
    /\ last.ret = ConvertValue(BigInt) /\ last.ret # BigInt
    /\ log = <<>> /\ nops = 2
    /\ HoldsValue(cell["a"]) /\ cell["b"].st = "absent"

\* C14: value_or has no failure of its own in either state: it never raises
\* MissingResultValue and never aborts (the one exception that can leave it
\* is one thrown by T's constructor while the returned T is built); when it
\* returns, the result is the held value on a value-holding Result and the
\* fallback converted to T on an error-holding one; the discriminant is
\* unchanged in every case.
ValueOrOps == {"value_or()&", "value_or()&&"}

LvalueObservers ==
    {"has_value()", "operator bool", "operator*&", "operator->", "value()&",
     "error()&", "value_or()&"}

C15_ObserversChangeNothing ==
    [][/\ last'.op \in LvalueObservers => cell' = cell
       /\ (/\ last.op \in {"has_value()", "operator bool"}
           /\ last'.op \in {"has_value()", "operator bool"}
           /\ last.tgt = Target)
          => last'.ret = last.ret]_vars

C15_Witness ==
    /\ last.op = "value_or()&" /\ last.outcome = "returned"
    /\ HoldsValue(cell["a"]) /\ last.ret = cell["a"].val
    /\ cell["a"].val = ConvertValue(BigInt)

\* C16, as claimed: operator* / operator-> on an error-holding Result raises
\* MissingResultValue carrying the stored error, and never hands out the
\* unconstructed value storage.
C16_DerefRaises ==
    [][(last'.op \in DerefOps /\ HoldsError(cell[Target]))
        => /\ Threw
           /\ last'.exc = cell[Target].err]_vars

\* C16, amended: operator* / operator-> on an error-holding Result never
\* raises: where assert() is compiled in the call stops the process at
\* assert(has_value()), where it is compiled out the call returns and hands
\* out the value storage, in which no T is constructed; the Result is left
\* as it was.  On a value-holding Result the call returns the held value.
C16_DerefAsserts ==
    [][/\ (last'.op \in DerefOps /\ HoldsError(cell[Target]))
          => /\ ~Threw /\ last'.exc = NoVal
             /\ cell' = cell
             /\ ~cfg.ndebug => /\ last'.outcome = "abort"
                               /\ log' = <<(<<"assert", Target>>)>>
             /\ cfg.ndebug => /\ Returned /\ last'.ret = NoVal
                              /\ log' = <<(<<"T?!", Target>>)>>
       /\ (last'.op \in DerefOps /\ HoldsValue(cell[Target]))
          => Returned /\ last'.ret = cell[Target].val /\ log' = <<>>]_vars

C16_Witness ==
    /\ last.op = "operator*&" /\ last.outcome = "abort" /\ aborted
    /\ HoldsError(cell["a"]) /\ cell["a"].err = ConvertError(BigInt)
    /\ ~cfg.ndebug

\* C17, as claimed: error() on a value-holding Result is reported as a
\* failed assertion that stops the process, never as an exception and never
\* by returning a reference into the storage of the value; error() on an
\* error-holding Result returns the stored error.
C17_ErrorAlwaysAsserts ==
    [][/\ (last'.op \in ErrorOps /\ HoldsValue(cell[Target]))
          => /\ last'.outcome = "abort"
             /\ log' = <<(<<"assert", Target>>)>>
       /\ (last'.op \in ErrorOps /\ HoldsError(cell[Target]))
          => Returned /\ last'.ret = cell[Target].err]_vars

\* C17, amended: error() on a value-holding Result never raises an
\* exception; where assert() is compiled in it is reported as a failed
\* assertion that stops the process; where assert() is compiled out the
\* call returns a reference into the storage that holds the value, in which
\* no Error is constructed.  error() on an error-holding Result returns the
\* stored error.  The Result is left as it was in every case.
C17_ErrorAsserts ==
    [][/\ (last'.op \in ErrorOps /\ HoldsValue(cell[Target]))
          => /\ ~Threw /\ last'.exc = NoVal
             /\ cell' = cell
             /\ ~cfg.ndebug => /\ last'.outcome = "abort"
                               /\ log' = <<(<<"assert", Target>>)>>
             /\ cfg.ndebug => /\ Returned /\ last'.ret = NoVal
                              /\ log' = <<(<<"E?!", Target>>)>>
       /\ (last'.op \in ErrorOps /\ HoldsError(cell[Target]))
          => /\ Returned /\ last'.ret = cell[Target].err
             /\ cell' = cell /\ log' = <<>>]_vars

C17_Witness ==
    /\ last.op = "error()&" /\ last.outcome = "abort" /\ aborted
    /\ log = <<(<<"assert", "a">>)>>
    /\ HoldsValue(cell["a"]) /\ ~cfg.ndebug

\* C18: copy-constructing or copy-assigning one Result from another leaves
\* the source's discriminant and payload unchanged, and no operation on one
\* Result (assignment, emplace, destruction, observation) changes another
\* Result, other than the one it swaps with or moves from.
CopiesFromResult == {"Result(const Result&)", "operator=(const Result&)"}
MovesFromResult == {"Result(Result&&)", "operator=(Result&&)"}

C18_NoSharing ==
    [][/\ (last'.op \in CopiesFromResult /\ last'.src # Target)
          => cell'[last'.src] = cell[last'.src]
       /\ \A o \in Obj \ {Target} :
            (/\ last'.op # "swap"
             /\ ~(last'.op \in MovesFromResult /\ last'.src = o))
            => cell'[o] = cell[o]]_vars

C18_Witness ==
    /\ last.op = "operator=(const Result&)" /\ last.src = "b"
    /\ last.outcome = "returned" /\ last.tgt = "a"
    /\ HoldsValue(cell["b"]) /\ cell["b"].val = ConvertValue(BigInt)
    /\ cell["a"].has_value_ /\ cell["a"].val = cell["b"].val
    /\ Count(log, "~E", "a") = 1

\* C19: T and E are the same type here, and every argument is convertible
\* to both.  Constructing or assigning from a bare x yields the value
\* alternative, constructing or assigning from Error(x) yields the error
\* alternative, for every x.
FromBareValue == {"Result(U)", "operator=(U&&)"}
FromError == {"Result(Error)", "operator=(Error)"}

C19_WrapperDecides ==
    [][/\ (last'.op \in FromBareValue /\ Returned)
          => /\ last'.arg.has
             /\ cell'[Target].has_value_
             /\ cell'[Target].val = ConvertValue(last'.arg.val)
       /\ (last'.op \in FromError /\ Returned)
          => /\ ~last'.arg.has
             /\ ~cell'[Target].has_value_
             /\ cell'[Target].err \in {last'.arg.err,
                                       ConvertError(last'.arg.err)}
       /\ TVals = EVals]_vars

C19_Witness ==
    /\ last.op = "Result(Error)" /\ last.outcome = "returned"
    /\ last.tgt = "a" /\ ~cfg.voidT
    /\ last.arg.err = 0 /\ ConvertValue(last.arg.err) \in TVals
    /\ HoldsError(cell["a"]) /\ cell["a"].err = 0

\* C20: operator== on two Error<E> objects is true exactly when the wrapped
\* errors are equal, and operator!= on the same pair is its negation.
C20_ErrorEquality ==
    last.op = "Error==" =>
        /\ last.ret[1] = (last.arg.val = last.arg.err)
        /\ last.ret[2] = ~last.ret[1]

C20_Witness ==
    /\ last.op = "Error==" /\ last.outcome = "returned"
    /\ last.arg.val = 0 /\ last.arg.err = ConvertError(BigInt)
    /\ last.ret = <<FALSE, TRUE>>

\* ------------------------------------------------- scope guard claims
\* A step that ran the destructor of guard did'.i, the guard before it.
Destroyed == did'.op = "~ScopeGuardBase"
Victim == guards[did'.i]
Ran == guards'[did'.i].runs = Victim.runs + 1 /\
       calls'[Victim.exit_function] = calls[Victim.exit_function] + 1
DidNotRun == guards'[did'.i].runs = Victim.runs /\ calls' = calls
GuardsOf(p) ==
    {i \in 1 .. Len(guards) : guards[i].execution_policy.policy = p}

\* C21: the destructor of a ScopeExit guard that has not been released
\* calls the exit function once, whether the block is left normally or by
\* an exception; so when the block has been left every such guard has
\* called it exactly once, and no guard ever calls it twice.
C21_ExitRunsOnce ==
    /\ [][Destroyed /\ Victim.execution_policy.policy = "OnExitPolicy"
            /\ Armed(Victim.execution_policy) => Ran]_vars
    /\ [](\A i \in GuardsOf("OnExitPolicy") :
            /\ guards[i].runs <= 1
            /\ phase = "done" /\ Armed(guards[i].execution_policy)
                => guards[i].runs = 1)

C21_Witness ==
    /\ phase = "done" /\ did.threw
    /\ \E i \in GuardsOf("OnExitPolicy") :
        Armed(guards[i].execution_policy) /\ guards[i].runs = 1

\* C22: the destructor of a ScopeFail guard that has not been released
\* calls the exit function iff the block is being left by an exception,
\* which is iff std::uncaught_exceptions() exceeds its value at the
\* guard's creation; on a normal exit it does not call it.
C22_FailRunsOnException ==
    [][Destroyed /\ Victim.execution_policy.policy = "OnFailPolicy"
         /\ Armed(Victim.execution_policy)
       => /\ Ran <=> phase = "unwinding"
          /\ Ran <=> uncaught > Victim.execution_policy.uncaught_on_creation_
          /\ phase = "leaving" => DidNotRun]_vars

C22_Witness ==
    /\ phase = "done" /\ did.threw
    /\ \E i \in GuardsOf("OnFailPolicy") :
        /\ guards[i].execution_policy.uncaught_on_creation_ = 1
        /\ guards[i].runs = 1

\* C23: the destructor of a ScopeSuccess guard that has not been released
\* calls the exit function iff the block is left normally, which is iff
\* std::uncaught_exceptions() does not exceed its value at the guard's
\* creation; when the block is left by an exception it does not call it.
C23_SuccessRunsOnNormalExit ==
    [][Destroyed /\ Victim.execution_policy.policy = "OnSuccessPolicy"
         /\ Armed(Victim.execution_policy)
       => /\ Ran <=> phase = "leaving"
          /\ Ran <=> uncaught <= Victim.execution_policy.uncaught_on_creation_
          /\ phase = "unwinding" => DidNotRun]_vars

C23_Witness ==
    /\ phase = "done" /\ ~did.threw
    /\ \E i \in GuardsOf("OnSuccessPolicy") :
        /\ guards[i].execution_policy.uncaught_on_creation_ = 1
        /\ guards[i].runs = 1

\* C24: a guard of any of the three policies on which release() has been
\* called never calls its exit function, however the block is left.
C24_ReleasedNeverRuns ==
    \A i \in 1 .. Len(guards) : guards[i].released => guards[i].runs = 0

C24_Witness ==
    /\ phase = "done" /\ did.threw
    /\ \E i \in GuardsOf("OnFailPolicy") :
        /\ guards[i].released /\ guards[i].from = 0
        /\ guards[i].st = "destroyed" /\ guards[i].runs = 0
        /\ \A j \in 1 .. Len(guards) : guards[j].from # i

\* C25: when the copy of the exit function into the guard throws, the
\* exception leaves the constructor, no guard exists, and the caller's
\* exit function has been called once for ScopeExit and ScopeFail and not
\* at all for ScopeSuccess.
C25_ConstructorFailure ==
    [][did'.op = "ScopeGuardBase(EFP&)" /\ did'.threw
       => /\ phase' = "unwinding" /\ uncaught' = uncaught + 1
          /\ guards' = guards
          /\ calls' = [calls EXCEPT ![did'.f] =
                IF did'.p \in {"OnExitPolicy", "OnFailPolicy"}
                THEN @ + 1 ELSE @]]_vars

C25_Witness ==
    /\ did.op = "ScopeGuardBase(EFP&)" /\ did.threw
    /\ did.p = "OnFailPolicy" /\ did.f = "ThrowOnCopy"
    /\ calls["ThrowOnCopy"] = 1

\* The guards made by the move constructor that were left alone afterwards.
MovedTo == {j \in 1 .. Len(guards) : guards[j].from # 0 /\ ~guards[j].released}

\* Whether an armed guard of policy p calls its exit function in a block
\* that is left by an exception (threw) or normally.
Fires(p, threw) ==
    CASE p = "OnExitPolicy" -> TRUE
      [] p = "OnFailPolicy" -> threw
      [] p = "OnSuccessPolicy" -> ~threw

\* C26 as claimed: over the destruction of the moved-from guard and the
\* new guard the exit function is called exactly once if the source was
\* armed and not at all if it had been released.
C26_MoveRunsOnceIfArmed ==
    phase = "done" =>
        \A j \in MovedTo :
            guards[guards[j].from].runs + guards[j].runs =
                IF guards[j].armed THEN 1 ELSE 0

\* C26: the move constructor gives the new guard the policy state of the
\* source and releases the source; the moved-from guard never calls the
\* exit function, and over the destruction of both guards it is called
\* once if the source was armed and its policy fires for the way the
\* block is left, and not at all otherwise.
C26_MoveTransfers ==
    /\ [][did'.op = "ScopeGuardBase(ScopeGuardBase&&)" /\ ~did'.threw
          => /\ Len(guards') = Len(guards) + 1
             /\ guards'[did'.i].execution_policy =
                    guards[guards'[did'.i].from].execution_policy
             /\ guards'[did'.i].exit_function =
                    guards[guards'[did'.i].from].exit_function
             /\ ~Armed(guards'[guards'[did'.i].from].execution_policy)]_vars
    /\ [](\A j \in 1 .. Len(guards) :
            guards[j].from # 0 => guards[guards[j].from].runs = 0)
    /\ [](phase = "done" =>
            \A j \in MovedTo :
                guards[guards[j].from].runs + guards[j].runs =
                    IF guards[j].armed
                       /\ Fires(guards[j].execution_policy.policy, did.threw)
                    THEN 1 ELSE 0)

C26_Witness ==
    /\ phase = "done"
    /\ \E j \in MovedTo :
        /\ guards[j].armed /\ guards[j].runs = 1
        /\ guards[j].execution_policy.policy = "OnExitPolicy"
        /\ guards[guards[j].from].runs = 0

\* --------------------------------------------- string algorithm claims
\* What replacing every occurrence of search in s by with is, scanning
\* from the left and taking occurrences that do not overlap.
RECURSIVE Replaced(_, _, _)
Replaced(s, search, with) ==
    IF Len(s) < Len(search) THEN s
    ELSE IF SubSeq(s, 1, Len(search)) = search
    THEN with \o Replaced(SubSeq(s, Len(search) + 1, Len(s)), search, with)
    ELSE <<Head(s)>> \o Replaced(Tail(s), search, with)

Occurs(search, s) ==
    \E i \in 0 .. Len(s) - Len(search) :
        SubSeq(s, i + 1, i + Len(search)) = search

ReplaceCall == call.fn = "strReplaceAll" /\ call.search # <<>>

\* C27: for a non-empty search string, strReplaceAll returns, and returns
\* the subject with every non-overlapping occurrence of search, taken
\* from the left, replaced; an iteration finds its occurrence at or
\* after pos, moves pos past the text it inserted and leaves the text
\* before pos as it is; a subject without an occurrence, an empty one
\* included, is returned unchanged.
C27_ReplaceAll ==
    /\ (ReplaceCall => <>(pc = "return"))
    /\ [](ReplaceCall /\ pc = "return"
            => /\ subject = Replaced(call.s, call.search, call.replace)
               /\ ~Occurs(call.search, call.s) => subject = call.s)
    /\ [][ReplaceCall /\ pc' = "strReplaceAll"
            => /\ pos' >= pos + Len(call.replace)
               /\ SubSeq(subject', 1, pos) = SubSeq(subject, 1, pos)
               /\ SubSeq(subject', pos' - Len(call.replace) + 1, pos')
                    = call.replace]_vars

C27_Witness ==
    /\ call.fn = "strReplaceAll" /\ pc = "return"
    /\ call.s = <<"a", "a", "b">> /\ call.search = <<"a">>
    /\ call.replace = <<"b", "a">>
    /\ subject = <<"b", "a", "b", "a", "b">>

\* The pieces of s between its delimiters: one more than it has
\* delimiters.
Cuts(s, d) == {0, Len(s) + 1} \cup {i \in 1 .. Len(s) : s[i] = d}
Cut(s, d, k) ==
    CHOOSE c \in Cuts(s, d) : Cardinality({x \in Cuts(s, d) : x < c}) = k
Pieces(s, d) ==
    [k \in 1 .. Cardinality(Cuts(s, d)) - 1 |->
        SubSeq(s, Cut(s, d, k - 1) + 1, Cut(s, d, k) - 1)]
DropLastEmpty(ps) ==
    IF ps[Len(ps)] = <<>> THEN SubSeq(ps, 1, Len(ps) - 1) ELSE ps

\* C28: strSplit emits the pieces of s between delimiters in order,
\* without the last piece when that is empty: nothing for an empty s, an
\* empty string for a leading delimiter and for each pair of adjacent
\* delimiters, and no empty string for a single trailing delimiter.
C28_Split ==
    call.fn = "strSplit" /\ pc = "return"
    => /\ output = DropLastEmpty(Pieces(call.s, call.delim))
       /\ call.s = <<>> => output = <<>>
       /\ call.s # <<>> /\ call.s[1] = call.delim => output[1] = <<>>
       /\ \A i \in 1 .. Len(call.s) - 1 :
            call.s[i] = call.delim /\ call.s[i + 1] = call.delim
            => output[Cardinality({j \in 1 .. i : call.s[j] = call.delim})
                      + 1] = <<>>
       /\ call.s # <<>> /\ call.s[Len(call.s)] = call.delim
            => Len(output) =
                 Cardinality({j \in 1 .. Len(call.s) : call.s[j] = call.delim})

C28_Witness ==
    /\ call.fn = "strSplit" /\ pc = "return"
    /\ call.s = <<"-", "a", "-">>
    /\ output = << <<>>, <<"a">> >>

\* --------------------------------------------- swap and the primitives
Events(lg) == {lg[i][1] : i \in 1 .. Len(lg)}

\* Only T is nothrow move constructible.
OnlyTNothrow == ~cfg.voidT /\ nothrowMoveT /\ ~nothrowMoveE

\* C29: when only T is nothrow move constructible, a swap of a
\* value-holding Result with an error-holding one returns with the
\* contents exchanged, with no assertion failed and no access to an
\* alternative that is not constructed.
C29_SwapWhenOnlyTNothrow ==
    [][(/\ last'.op = "swap" /\ OnlyTNothrow
        /\ ExactlyOne(cell[Target]) /\ ExactlyOne(cell[last'.src])
        /\ cell[Target].has_value_ # cell[last'.src].has_value_)
        => /\ Returned
           /\ Events(log') \cap {"assert", "T?!", "E?!", "~T!", "~E!",
                                 "T=!", "E=!"} = {}
           /\ ExactlyOne(cell'[Target]) /\ ExactlyOne(cell'[last'.src])
           /\ Holds(cell'[Target]) = Holds(cell[last'.src])
           /\ Holds(cell'[last'.src]) = Holds(cell[Target])]_vars

\* C30: in a public operation that starts with every Result holding
\* exactly one constructed alternative, no payload is constructed over an
\* alternative that is still constructed, and no payload assignment
\* operator or destructor is applied to storage in which no object of its
\* type is constructed.
C30_PrimitivesInLegalState ==
    [][AllExactlyOne(cell)
        => Events(log') \cap {"leak", "~T!", "~E!", "T=!", "E=!"} = {}]_vars

\* ---------------------------------------- failure inside a construction
\* A call on an existing Result whose only payload operation that can
\* fail is the construction of the new payload by constructValue /
\* constructError.
Constructs ==
    /\ ExactlyOne(cell[Target])
    /\ \/ last'.op = "operator=(U&&)" /\ ~cell[Target].has_value_
       \/ last'.op = "operator=(Error)" /\ cell[Target].has_value_

\* C31: when the payload constructor run by constructValue or
\* constructError fails, the failure leaves the call as an exception and
\* the discriminant of an existing Result is what it was before the call.
C31_ConstructFailurePropagates ==
    [][(Constructs /\ Events(log') \cap {"throw", "terminate"} # {})
        => /\ Threw
           /\ "terminate" \notin Events(log')
           /\ cell'[Target].has_value_ = cell[Target].has_value_]_vars

\* C32: when the payload operation fails while a Result is constructed
\* from another Result, no payload destructor runs on the storage of the
\* new object.
C32_FailedConstructionNotTornDown ==
    [][(last'.op \in ResultConstructors /\ ~Returned)
        => \A i \in 1 .. Len(log') :
              log'[i][2] = Target
              => log'[i][1] \notin {"~T", "~E", "~T!", "~E!"}]_vars

\* C33: r = r returns with r holding the alternative and the payload it
\* held before, and reads no payload that has been destroyed.
C33_SelfAssignment ==
    [][(/\ last'.op = "operator=(const Result&)" /\ last'.src = Target
        /\ ExactlyOne(cell[Target]))
        => /\ Returned
           /\ ExactlyOne(cell'[Target])
           /\ Holds(cell'[Target]) = Holds(cell[Target])
           /\ Events(log') \cap {"T?!", "E?!", "T=!", "E=!"} = {}]_vars

\* C34: every call of strReplaceAll returns, a call with an empty search
\* string included.
C34_ReplaceAllTerminates ==
    call.fn = "strReplaceAll" => <>(pc = "return")

\* A step in which thread t returns from wait().
BReturns(t) == party[t].pc \in {"locked", "check"} /\ party'[t].pc = "idle"

\* C35: for a Barrier of count N >= 1, whenever a thread returns from
\* wait(), N threads have called wait() in the generation the returning
\* thread entered in; no generation is ever entered by more than N.
C35_BarrierSafety ==
    [][\A t \in Threads :
          BReturns(t)
          => /\ round'.entered[party'[t].current_generation]
                   = barrier.threshold_
             /\ \A g \in Generations :
                   round'.entered[g] <= barrier.threshold_]_vars

\* Both threads of a two-thread generation have returned, one of them
\* after a spurious wake-up.
C35_Witness ==
    /\ barrier # <<>> /\ barrier.threshold_ = 2
    /\ round.returned[0] = 2 /\ round.spurious >= 1

\* C36: once N threads have entered wait() in a generation of a Barrier
\* of count N, all N of them eventually return; the step that completes
\* the generation advances generation_ by one and resets count_ to N, and
\* this holds of every generation, the following ones included.
C36_BarrierLiveness ==
    /\ \A g \in Generations :
          (barrier # <<>> /\ round.entered[g] = barrier.threshold_)
          ~> (round.returned[g] = barrier.threshold_)
    /\ [][\A g \in Generations :
             (round'.entered[g] = barrier.threshold_
              /\ round.entered[g] # barrier.threshold_)
             => /\ barrier'.generation_ = g + 1
                /\ barrier.generation_ = g
                /\ barrier'.count_ = barrier.threshold_]_vars

\* The second round of a two-thread Barrier has released both threads.
C36_Witness ==
    /\ barrier # <<>> /\ barrier.threshold_ = 2
    /\ round.returned[0] = 2 /\ round.returned[1] = 2
    /\ barrier.generation_ = 2 /\ barrier.count_ = 2

\* The decrements of count_ so far.
Taken == tally.waits + tally.tries

\* C37: count_ is never decremented below zero: every decrement is by
\* one from a positive count, and count_ is the initial count plus the
\* notify() calls minus the decrements, so completed wait() calls plus
\* successful try_wait() calls never exceed the initial count plus the
\* notify() calls; try_wait() returns true iff it decremented count_,
\* and never waits on cv_.
C37_SemaphoreSafety ==
    /\ [](/\ sem.count_ >= 0
          /\ sem.count_ = tally.initial + tally.notifies - Taken
          /\ tally.waits + tally.tries <= tally.initial + tally.notifies
          /\ \A t \in Users :
                user[t].op = "try_wait" => user[t].pc \in {"lock", "locked"})
    /\ [][/\ sem'.count_ < sem.count_
             => sem.count_ > 0 /\ sem'.count_ = sem.count_ - 1
          /\ \A t \in Users :
                (user[t].op = "try_wait" /\ user'[t].pc = "idle")
                => /\ user'[t].ret \in {"true", "false"}
                   /\ user'[t].ret = "true"
                         <=> sem'.count_ = sem.count_ - 1
                   /\ user'[t].ret = "false" <=> sem'.count_ = sem.count_]_vars

\* A wait() that had to block and a try_wait() have each taken a count,
\* and another try_wait() has found none.
C37_Witness ==
    /\ sem # <<>> /\ sem.count_ = 0 /\ tally.initial = 0
    /\ tally.waits = 1 /\ tally.tries = 1 /\ tally.notifies = 2
    /\ \E t \in Users : user[t].ret = "false"

\* The threads inside a call that takes a count.
Hungry == {u \in Users : user[u].op \in Consumers}

\* count_ covers every thread inside a consuming call.
Enough == sem.count_ >= Cardinality(Hungry)

\* C38: no wake-up is lost: a thread inside wait() returns once count_
\* covers the threads inside consuming calls, unless further consumers
\* arrive (only the arrival of a consumer ends that cover); whenever
\* count_ is positive and a thread is blocked on cv_, some thread has been
\* unblocked and is on its way to the predicate; and a wait() that finds
\* count_ positive on entry returns without waiting on cv_.
C38_SemaphoreLiveness ==
    /\ \A t \in Users :
          (user[t].op = "wait" /\ Enough)
          ~> (user[t].op # "wait" \/ ~Enough)
    /\ [][(Enough /\ ~Enough')
             => \E u \in Users :
                   user[u].pc = "idle" /\ user'[u].op \in Consumers]_vars
    /\ [](sem.count_ > 0 /\ sem.cv_ # {}
             => \E u \in Users : user[u].pc \in {"woken", "check"})
    /\ [][\A t \in Users :
             (/\ user[t].op = "wait" /\ user[t].pc = "locked"
              /\ sem.count_ > 0 /\ user'[t] # user[t])
             => user'[t].pc = "idle" /\ user'[t].ret = "void"]_vars

\* Two threads blocked in wait() have been unblocked by two notify()
\* calls and count_ covers both.
C38_Witness ==
    /\ sem # <<>> /\ sem.count_ = 2 /\ tally.notifies = 2
    /\ tally.spurious = 0
    /\ Cardinality({t \in Users :
                       user[t].op = "wait" /\ user[t].pc = "woken"}) = 2

====
